---------------------------- MODULE Spec2Model ----------------------------
(***************************************************************************)
(* WorkTimeTracker: the durable local log (user_app/db_local.py), the      *)
(* employee client (user_app/gui.py, user_app/main.py), the background     *)
(* sync engine (auto_sync.py) and the Active-Session Directory             *)
(* (sheets_api.py), the persisted queue (sync/sync_queue.py) and the       *)
(* personal rules (user_app/personal_rules.py), as state machines.         *)
(*                                                                         *)
(* A row of the log is a record; the log is the sequence of its rows in id *)
(* order.  The clock counts minutes.  The remote WorkLog tables are the    *)
(* sequence of the ids of the rows appended to them, in append order.      *)
(***************************************************************************)
EXTENDS Integers, Sequences, FiniteSets, Bags

(***************************************************************************)
(* Bounds of the model.                                                    *)
(***************************************************************************)
MaxRows == 2        \* rows the callers of the log may write
MaxTicks == 2       \* advances of the clock
MaxResend == 1      \* remote appends beyond one per row of the log
MaxEmits == 2       \* force_logout emissions that are counted
QueueLen == 120     \* events queued while offline
QueueTail == 6      \* the last of them, queued while the engine runs
LargeBatch == 120   \* a batch size setting above the recovery threshold
MaxReadRows == 3    \* rows of a log that the batch read is applied to
MaxSessionRows == 2 \* rows of the directory that the calls are applied to
MaxErrors == 2      \* cycles of the engine that end in the except branch
MaxQuota == 2       \* the largest quota that the remote service reports
MaxCalls == 3       \* remote calls that the threads of the process start
MaxClock == 7       \* half seconds that the clock of the layer runs
MaxOpens == 5       \* constructions and re-openings of the local log
MaxStatusEvents == 14 \* rows of status_events inside the window
MaxQueue == 3        \* entries that the persisted queue holds
MaxSheetIds == 2     \* ids that a table name gets upstream, one after the other

(***************************************************************************)
(* Program constants.                                                      *)
(***************************************************************************)
API_MAX_RETRIES == 5
SYNC_BATCH_SIZE == 35
SYNC_INTERVAL == 100
SYNC_INTERVAL_ONLINE == 60
SYNC_INTERVAL_OFFLINE_RECOVERY == 300
OFFLINE_PROBE_INTERVAL == 10
RECOVERY_THRESHOLD == 100
DRAIN_THRESHOLD == 50
LOGOUT_WINDOW == 5
MIN_PRIORITY == 1
MAX_PRIORITY == 3
DUPLICATE_LOGOUT == -1
NULL == -1
PING_TIMEOUT == 60
MAX_HISTORY_DAYS == 30               \* 3600 s, in minutes as the clock
API_DELAY_SECONDS == 3           \* 1.5 s; the waits are in half seconds
MAX_REQUESTS_PER_MINUTE == 60
QUOTA_DEFAULT == 100

DAY == 24 * 60

Emails == {"a", "b"}
ClientEmail == "a"
SessionOf(email) == IF email = "a" THEN "s1" ELSE "s2"
NoEmail == ""
NoSession == ""
ActionTypes == {"LOGIN", "STATUS_CHANGE", "LOGOUT"}
PriorityInputs == {0, 4}
TickSteps == {1, LOGOUT_WINDOW + 1, DAY}
BatchSizes == {SYNC_BATCH_SIZE, LargeBatch}
BacklogSizes == {DRAIN_THRESHOLD - 10, RECOVERY_THRESHOLD + 50}

VARIABLES
    logs,          \* the rows of table logs, in id order
    sqlite_seq,    \* AUTOINCREMENT: the largest id ever assigned
    now,           \* the wall clock, in minutes
    ticks,         \* how often the clock has advanced
    online,        \* what is_internet_available() answers
    remote,        \* the ids appended to the WorkLog tables, in append order
    senders,       \* the foreground sender threads started and not yet run
    sessions,      \* the rows of the ActiveSessions table
    app_running,   \* the client process runs (and with it the engine thread)
    gui_running,   \* the employee window is open, force_logout is connected
    shift_ended,   \* EmployeeApp.shift_ended
    ui_shutdowns,  \* how often a remote termination has shut the window down
    gui_status,    \* what the window's last poll of the directory answered
    force_logout,  \* force_logout signals queued for the window
    emitted,       \* how often the engine has emitted force_logout
    remote_status, \* what the engine's last poll of the directory answered
    e_pc,          \* the engine: "idle", "attempt", "mark", "check"
    batch,         \* _sync_batch: the groups of the batch, [email, ids]
    grp,           \* _sync_batch: the index of the group being sent
    attempt,       \* _sync_batch: the attempt number of that group, from 0
    synced_ids,    \* _sync_batch: the ids of the groups confirmed so far
    tried,         \* the groups of the batch that had at least one attempt
    failed,        \* the groups of the batch that used up their attempts
    is_offline_recovery,  \* SyncManager._is_offline_recovery
    sync_interval, \* SyncManager._sync_interval, in seconds
    batch_size,    \* the setting SYNC_BATCH_SIZE
    cycle,         \* what the running cycle found when it began
    request,       \* SheetsAPI._request_with_retry: the call that is running
    quota_info,    \* SheetsAPI._quota_info: the calls that the quota still allows
    pending,       \* per caller: the directory row it read and is to update
    header,        \* the first row of the ActiveSessions table: the column names
    worklog,       \* SheetsAPI.log_user_actions: a call, and where its rows went
    rate_clock,    \* time.time() as the layer reads it, in half seconds
    last_request_time, \* SheetsAPI._last_request_time, NULL when not set
    callers,       \* the threads inside _check_rate_limit
    call_starts,   \* when the remote calls started, in the order of the starts
    stop_event,    \* SyncManager._stop_event: set or not
    errors,        \* cycles that run_service has logged as failed
    db_conn,       \* SyncManager._db.conn: the engine's connection is open
    last_ping,     \* SyncManager._last_ping
    local_db,      \* LocalDB: conn, db_path, _opened_path, the last lifecycle call
    usable_paths,  \* the paths on which a database can be opened now
    db_opens,      \* how often the log was constructed or opened again
    sheet_cache,   \* SheetsAPI._sheet_cache: per table name the handle, 0 if none
    sheets,        \* the tables of the remote book: per name its id, and is it there
    ws_call,       \* the last call made on a table through its handle
    queue,         \* SyncQueue.queue: the entries in memory
    queue_file,    \* what the queue file holds
    queue_lock,    \* SyncQueue.lock: the thread that holds it, or nobody
    queue_pc,      \* per thread: the queue operation it is in, and where
    db_lock,       \* LocalDB._lock: the thread that holds it, or nobody
    lock_pc,       \* per thread: where it is between the log and the network
    status_events, \* personal_rules: the rows of status_events inside the window
    api_instance,  \* SheetsAPI._instance: which object, and how far initialized
    api_lock,      \* SheetsAPI._lock: the thread that holds it, or nobody
    api_pc,        \* per thread: where it is in SheetsAPI(), and what it received
    close_event    \* closeEvent of the window: its dialog, and when it was answered

logVars == <<logs, sqlite_seq>>
clockVars == <<now, ticks>>
guiVars == <<gui_running, shift_ended, ui_shutdowns, gui_status>>
signalVars == <<force_logout, emitted, remote_status>>
batchVars == <<e_pc, batch, grp, attempt, synced_ids, tried, failed>>
modeVars == <<is_offline_recovery, sync_interval, batch_size, cycle>>
\* The engine's stop event, connection and watchdog.
serviceVars == <<stop_event, errors, db_conn, last_ping>>
\* What the client window, the sender threads and the log's callers leave
\* alone.
\* The rate limit of the Remote Access Layer.
rateVars == <<rate_clock, last_request_time, callers, call_starts>>
\* The lifecycle of the local log, the table handles, the persisted queue
\* and the client object of the Remote Access Layer.
\* The lifecycle of the local log's connection.
dbVars == <<local_db, usable_paths, db_opens>>
\* The table handles of the Remote Access Layer.
cacheVars == <<sheet_cache, sheets, ws_call>>
\* The persisted queue and its lock.
queueVars == <<queue, queue_file, queue_lock, queue_pc>>
\* The mutex of the local log and the threads that take it.
lockVars == <<db_lock, lock_pc, status_events>>
\* The client object of the Remote Access Layer and who has obtained it.
apiVars == <<api_instance, api_lock, api_pc>>
\* The confirmation dialog of the window's closeEvent.
closeVars == <<close_event>>
libVars == <<dbVars, cacheVars, queueVars, lockVars, apiVars, closeVars>>
\* The state of the client, the engine and the directory.
coreVars == <<logVars, clockVars, header, serviceVars, rateVars, worklog,
              request, quota_info, pending, online, remote, senders, sessions,
              app_running, guiVars, signalVars, batchVars, modeVars>>
auxVars == <<header, serviceVars, rateVars, worklog, libVars>>
vars == <<logs, sqlite_seq, now, ticks, online, remote, senders, sessions,
          app_running, gui_running, shift_ended, ui_shutdowns, gui_status,
          force_logout, emitted, remote_status, e_pc, batch, grp,
          attempt, synced_ids, tried, failed, is_offline_recovery,
          sync_interval, batch_size, cycle, request, quota_info, pending, header,
          worklog, rate_clock, last_request_time, callers, call_starts,
          stop_event, errors, db_conn, last_ping,
          local_db,
          usable_paths,
          db_opens,
          sheet_cache, sheets, ws_call,
          queue, queue_file, queue_lock, queue_pc,
          db_lock, lock_pc, status_events,
          api_instance, api_lock, api_pc,
          close_event>>

Range(s) == {s[i] : i \in 1..Len(s)}

Min(a, b) == IF a < b THEN a ELSE b
Max(a, b) == IF a > b THEN a ELSE b

(***************************************************************************)
(* The local log.                                                          *)
(***************************************************************************)

\* priority is clamped to 1..3; a falsy priority (0, None) counts as 1
ClampPriority(p) == Max(MIN_PRIORITY, Min(MAX_PRIORITY, IF p = 0 THEN 1 ELSE p))

\* The calendar day of an instant.
DayOf(t) == t \div DAY

\* timestamp > datetime('now', '-5 minutes'): SQLite compares the two as text.
\* The stored timestamp is ISO-8601 with the separator 'T', datetime() gives
\* the separator ' ', so within one date the stored text is always the greater
\* one and only the date decides.
TimestampAfterCutoff(ts, t) == DayOf(ts) >= DayOf(t - LOGOUT_WINDOW)

\* The mutant of the trigger that never aborts.
prevent_duplicate_logout_off(L, session_id, action_type, t) == FALSE

\* The trigger prevent_duplicate_logout: does it abort the insert?
prevent_duplicate_logout(L, session_id, action_type, t) ==
    /\ action_type = "LOGOUT"
    /\ \E r \in Range(L) : /\ r.session_id = session_id
                           /\ r.action_type = "LOGOUT"
                           /\ TimestampAfterCutoff(r.timestamp, t)

NewRow(id, email, session_id, action_type, priority, status_end_time, t) ==
    [id |-> id, email |-> email, session_id |-> session_id,
     action_type |-> action_type, priority |-> ClampPriority(priority),
     timestamp |-> t, status_end_time |-> status_end_time,
     synced |-> 0, sync_attempts |-> 0]

\* The mutant of mark_actions_synced that counts the attempt and leaves the
\* flag.
mark_actions_attempted(L, ids) ==
    [i \in 1..Len(L) |->
        IF L[i].id \in ids
        THEN [L[i] EXCEPT !.sync_attempts = @ + 1]
        ELSE L[i]]

\* The mutant of mark_actions_synced without the WHERE clause.
mark_actions_synced_all(L, ids) ==
    [i \in 1..Len(L) |->
        [L[i] EXCEPT !.synced = 1, !.sync_attempts = @ + 1]]

\* UPDATE logs SET synced = 1, sync_attempts = sync_attempts + 1 WHERE id IN ids
mark_actions_synced(L, ids) ==
    [i \in 1..Len(L) |->
        IF L[i].id \in ids
        THEN [L[i] EXCEPT !.synced = 1, !.sync_attempts = @ + 1]
        ELSE L[i]]

\* dist LocalDB._try_immediate_sync: the row is marked synced; nothing is sent.
try_immediate_sync(L, record_id) ==
    IF \E r \in Range(L) : r.id = record_id
    THEN mark_actions_synced(L, {record_id})
    ELSE L

\* LocalDB.log_action: the log after the call, the id it returns (-1 for a
\* duplicate LOGOUT, which changes nothing) and the AUTOINCREMENT counter.
log_action(L, seq, t, email, action_type, priority, session_id, status_end_time, immediate_sync) ==
    IF prevent_duplicate_logout(L, session_id, action_type, t)
    THEN [logs |-> L, id |-> DUPLICATE_LOGOUT, seq |-> seq]
    ELSE LET row == NewRow(seq + 1, email, session_id, action_type, priority,
                           status_end_time, t)
             ins == Append(L, row)
         IN  [logs |-> IF immediate_sync THEN try_immediate_sync(ins, seq + 1)
                       ELSE ins,
              id |-> seq + 1, seq |-> seq + 1]

\* The open status rows of a session: LOGIN or STATUS_CHANGE, no end time.
OpenRows(L, email, session_id) ==
    {r \in Range(L) : /\ r.email = email
                      /\ r.session_id = session_id
                      /\ r.status_end_time = NULL
                      /\ r.action_type \in {"LOGIN", "STATUS_CHANGE"}}

MaxId(rows) == CHOOSE i \in {r.id : r \in rows} : \A r \in rows : r.id <= i

\* The mutant of finish_last_status that queues the row it closes again.
finish_last_status_requeue(L, email, session_id, t) ==
    LET open == OpenRows(L, email, session_id)
    IN  IF open = {}
        THEN [logs |-> L, id |-> NULL]
        ELSE LET rid == MaxId(open)
             IN  [logs |-> [i \in 1..Len(L) |->
                               IF L[i].id = rid
                               THEN [L[i] EXCEPT !.status_end_time = t,
                                                 !.synced = 0]
                               ELSE L[i]],
                  id |-> rid]

\* LocalDB.finish_last_status: the newest open row gets its end time; the id
\* of that row, or NULL when the session has no open row.
finish_last_status(L, email, session_id, t) ==
    LET open == OpenRows(L, email, session_id)
    IN  IF open = {}
        THEN [logs |-> L, id |-> NULL]
        ELSE LET rid == MaxId(open)
             IN  [logs |-> [i \in 1..Len(L) |->
                               IF L[i].id = rid
                               THEN [L[i] EXCEPT !.status_end_time = t]
                               ELSE L[i]],
                  id |-> rid]

\* The mutant of check_existing_logout that finds no LOGOUT row.
check_existing_logout_none(L, email, session_id) == FALSE

\* LocalDB.check_existing_logout: has the session a LOGOUT row?
check_existing_logout(L, email, session_id) ==
    \E r \in Range(L) : /\ r.email = email
                        /\ r.session_id = session_id
                        /\ r.action_type = "LOGOUT"

\* LocalDB.get_current_user_email: the email of the newest open status row.
get_current_user_email(L) ==
    LET open == {r \in Range(L) : /\ r.status_end_time = NULL
                                  /\ r.action_type \in {"LOGIN", "STATUS_CHANGE"}}
    IN  IF open = {} THEN NoEmail
        ELSE (CHOOSE r \in open : r.id = MaxId(open)).email

\* LocalDB.get_last_unfinished_session (get_active_session): the session of the
\* latest LOGIN row of the email whose session has no LOGOUT row of the email.
get_last_unfinished_session(L, email) ==
    LET logins == {r \in Range(L) :
                      /\ r.email = email
                      /\ r.action_type = "LOGIN"
                      /\ ~check_existing_logout(L, email, r.session_id)}
    IN  IF logins = {} THEN NoSession
        ELSE (CHOOSE r \in logins :
                 \A q \in logins : \/ q.timestamp < r.timestamp
                                   \/ q.timestamp = r.timestamp /\ q.id <= r.id
             ).session_id

(***************************************************************************)
(* The batch read.                                                         *)
(***************************************************************************)

\* The mutant of the order in which the newest row of a priority comes first.
OrderedBefore_newest_first(r1, r2) ==
    \/ r1.priority > r2.priority
    \/ r1.priority = r2.priority /\ r1.timestamp > r2.timestamp
    \/ r1.priority = r2.priority /\ r1.timestamp = r2.timestamp /\ r1.id < r2.id

\* ORDER BY priority DESC, timestamp ASC; rows equal in both come in id order.
OrderedBefore(r1, r2) ==
    \/ r1.priority > r2.priority
    \/ r1.priority = r2.priority /\ r1.timestamp < r2.timestamp
    \/ r1.priority = r2.priority /\ r1.timestamp = r2.timestamp /\ r1.id < r2.id

\* The rows of s in the order of the query: row i takes the place that the
\* number of rows ordered before it gives.
SortRows(s) ==
    LET place == [i \in 1..Len(s) |->
                     Cardinality({j \in 1..Len(s) : OrderedBefore(s[j], s[i])}) + 1]
                 \o <<>>
    IN  [k \in 1..Len(s) |-> s[CHOOSE i \in 1..Len(s) : place[i] = k]]

Take(s, n) == SubSeq(s, 1, Min(n, Len(s)))

\* LocalDB.get_unsynced_actions: WHERE synced = 0 ORDER BY ... LIMIT limit
get_unsynced_actions(L, limit) ==
    LET unsynced(r) == r.synced = 0
    IN  Take(SortRows(SelectSeq(L, unsynced)), limit)

\* LocalDB.get_unsynced_count
get_unsynced_count(L) == Cardinality({i \in 1..Len(L) : L[i].synced = 0})

IdsOf(s) == [i \in 1..Len(s) |-> s[i].id]

\* SyncManager._prepare_batch: the rows grouped by email, the groups in the
\* order in which their emails first occur (a dict keeps insertion order).
RECURSIVE group_by_email(_)
group_by_email(s) ==
    IF s = <<>> THEN <<>>
    ELSE LET e == Head(s).email
             same(r) == r.email = e
             other(r) == r.email # e
         IN  <<[email |-> e, ids |-> IdsOf(SelectSeq(s, same))]>>
             \o group_by_email(SelectSeq(s, other))

prepare_batch(L, limit) == group_by_email(get_unsynced_actions(L, limit))

RECURSIVE total_actions(_)
total_actions(b) ==
    IF b = <<>> THEN 0 ELSE Len(Head(b).ids) + total_actions(Tail(b))

(***************************************************************************)
(* The Active-Session Directory.                                           *)
(***************************************************************************)

\* The processes that update the directory: a client and the admin panel.
Actors == {"client", "admin"}

\* A caller that is not between the read and the update of a directory call.
NoUpdate == [op |-> "none", row |-> 0, status |-> "", t |-> NULL]

\* The session ids that rows of the directory carry.
SessionIds == {SessionOf(e) : e \in Emails}

\* sorted(rows, key=(LoginTime, index))[-1]
LatestOf(S, idx) ==
    CHOOSE i \in idx :
        \A j \in idx : \/ S[j].login_time < S[i].login_time
                       \/ S[j].login_time = S[i].login_time /\ j <= i

\* SheetsAPI.set_active_session: one more row, active.
set_active_session(S, email, session_id, t) ==
    Append(S, [email |-> email, session_id |-> session_id, login_time |-> t,
               status |-> "active", logout_time |-> NULL, remote_command |-> ""])

\* The mutant of check_user_session_status that looks at the email only.
check_user_session_status_by_email(S, email, session_id) ==
    LET same == {i \in 1..Len(S) : S[i].email = email}
    IN  IF same = {} THEN "unknown" ELSE S[LatestOf(S, same)].status

\* SheetsAPI.check_user_session_status: the status of the latest row of the
\* email and session, else of the latest row of the email, else "unknown".
check_user_session_status(S, email, session_id) ==
    LET exact == {i \in 1..Len(S) : /\ S[i].email = email
                                    /\ S[i].session_id = session_id}
        same == {i \in 1..Len(S) : S[i].email = email}
        status(i) == IF S[i].status = "" THEN "unknown" ELSE S[i].status
    IN  IF exact # {} THEN status(LatestOf(S, exact))
        ELSE IF same = {} THEN "unknown"
        ELSE status(LatestOf(S, same))

\* The columns of the table, in the order in which set_active_session writes
\* the cells of a new row, and RemoteCommand after them.
DefaultHeader ==
    <<"email", "session_id", "login_time", "status", "logout_time",
      "remote_command">>

\* _header_map: the place of a column in the first row of the table.
header_map(hdr, name) == CHOOSE i \in 1..Len(hdr) : hdr[i] = name

\* An empty cell, as a row of the model shows it.
Blank(name) == IF name \in {"login_time", "logout_time"} THEN NULL ELSE ""

\* ws.update(rng, [buf]): the range goes from the leftmost to the rightmost
\* of the columns of cells; buf holds the values of cells in their places and
\* "" in every other place of the range.
range_update(S, row, hdr, cells) ==
    LET places == {header_map(hdr, name) : name \in DOMAIN cells}
        left == CHOOSE i \in places : \A j \in places : i <= j
        right == CHOOSE i \in places : \A j \in places : j <= i
    IN  [S EXCEPT ![row] =
            [name \in DOMAIN S[row] |->
                IF name \in DOMAIN cells THEN cells[name]
                ELSE IF /\ left <= header_map(hdr, name)
                        /\ header_map(hdr, name) <= right
                     THEN Blank(name)
                     ELSE S[row][name]]]

\* The range update of finish_active_session on the row it found: the cells
\* Status and LogoutTime.
finish_update(S, hdr, row, t) ==
    range_update(S, row, hdr, [status |-> "finished", logout_time |-> t])

\* finish_active_session, the search: the first active row of the email and
\* session, 0 when there is none (the function returns False).
finish_row(S, email, session_id) ==
    LET rows == {i \in 1..Len(S) : /\ S[i].email = email
                                   /\ S[i].session_id = session_id
                                   /\ S[i].status = "active"}
    IN  IF rows = {} THEN 0 ELSE CHOOSE i \in rows : \A j \in rows : i <= j

\* SheetsAPI.finish_active_session: the first active row of the email and
\* session becomes finished, with the logout time t.
finish_active_session(S, hdr, email, session_id, t) ==
    LET row == finish_row(S, email, session_id)
    IN  IF row = 0 THEN S ELSE finish_update(S, hdr, row, t)

\* The range update of kick_active_session on the row it found: the cells
\* Status, LogoutTime and RemoteCommand.
kick_update(S, hdr, row, status, t) ==
    range_update(S, row, hdr, [status |-> status, logout_time |-> t,
                               remote_command |-> "FORCE_LOGOUT"])

\* kick_active_session, the candidates: the active rows of the email, of the
\* session when one is given.
kick_candidates(S, email, session_id) ==
    {i \in 1..Len(S) : /\ S[i].email = email
                       /\ S[i].status = "active"
                       /\ (session_id = NoSession \/ S[i].session_id = session_id)}

\* The mutant of kick_row that takes the first candidate of the table.
kick_row_first(S, email, session_id) ==
    IF kick_candidates(S, email, session_id) = {} THEN 0
    ELSE CHOOSE i \in kick_candidates(S, email, session_id) :
             \A j \in kick_candidates(S, email, session_id) : i <= j

\* kick_active_session, the search: the latest of the candidates, 0 when there
\* is none (the function returns False).
kick_row(S, email, session_id) ==
    IF kick_candidates(S, email, session_id) = {} THEN 0
    ELSE LatestOf(S, kick_candidates(S, email, session_id))

\* SheetsAPI.kick_active_session: the latest active row of the email (of the
\* session, when one is given) gets the status handed in.
kick_active_session(S, hdr, email, session_id, status, t) ==
    LET row == kick_row(S, email, session_id)
    IN  IF row = 0 THEN S ELSE kick_update(S, hdr, row, status, t)

\* The mutant of cleanup_old_action_logs that keeps the rows not yet synced.
cleanup_synced_only(L, t, days) ==
    SelectSeq(L, LAMBDA r : ~(r.timestamp < t - days * DAY /\ r.synced = 1))

\* LocalDB.cleanup_old_action_logs at time t:
\* DELETE FROM logs WHERE timestamp < cutoff, the cutoff being days before t.
cleanup_old_action_logs(L, t, days) ==
    SelectSeq(L, LAMBDA r : ~(r.timestamp < t - days * DAY))

\* LocalDB._ensure_open at time t: a closed connection is opened again, and
\* open ends with the sweep of the old rows.
ensure_open(L, conn, t) ==
    IF conn THEN L ELSE cleanup_old_action_logs(L, t, MAX_HISTORY_DAYS)

(***************************************************************************)
(* Operations of the log, as the actions of its callers.                   *)
(***************************************************************************)

\* Time passes.
Tick(d) ==
    /\ ticks < MaxTicks
    /\ now' = now + d
    /\ ticks' = ticks + 1
    /\ UNCHANGED <<logVars, auxVars, request, quota_info, pending, online, remote, senders,
                   sessions, app_running, guiVars, signalVars, batchVars, modeVars>>

\* append: a call of log_action.  As in every call the client makes, a LOGIN
\* or STATUS_CHANGE row is inserted open and a LOGOUT row closed.
LogAction(email, action_type, priority, immediate_sync) ==
    /\ LET res == log_action(logs, sqlite_seq, now, email, action_type, priority,
                             SessionOf(email),
                             IF action_type = "LOGOUT" THEN now ELSE NULL,
                             immediate_sync)
       IN  /\ logs' = res.logs
           /\ sqlite_seq' = res.seq
    /\ UNCHANGED <<clockVars, auxVars, request, quota_info, pending, online, remote, senders, sessions, app_running,
                   guiVars, signalVars, batchVars, modeVars>>

\* close_open_status: a call of finish_last_status.
FinishLastStatus(email) ==
    /\ LET res == finish_last_status(logs, email, SessionOf(email), now)
       IN  logs' = res.logs
    /\ UNCHANGED <<sqlite_seq, clockVars, auxVars, request, quota_info, pending, online, remote, senders, sessions,
                   app_running, guiVars, signalVars, batchVars, modeVars>>

(***************************************************************************)
(* The sync engine's own state.                                            *)
(***************************************************************************)

NoCycle == [active |-> FALSE, online |-> FALSE, backlog |-> 0,
            recovery |-> FALSE]

BatchReset ==
    /\ batch' = <<>>
    /\ grp' = 0
    /\ attempt' = 0
    /\ synced_ids' = {}
    /\ tried' = {}
    /\ failed' = {}

\* SyncManager.__init__: the state a new engine starts in.
EngineInit ==
    /\ e_pc' = "idle"
    /\ BatchReset
    /\ is_offline_recovery' = FALSE
    /\ sync_interval' = SYNC_INTERVAL
    /\ cycle' = NoCycle
    /\ remote_status' = "none"
    /\ UNCHANGED batch_size

(***************************************************************************)
(* The employee client.                                                    *)
(***************************************************************************)

\* The remote tables take n more rows (the bound on repeated appends).
CanAppend(n) == Len(remote) + n <= Len(logs) + MaxResend

\* EmployeeApp._send_action_to_sheets: one more sender thread for record_id.
send_action_to_sheets(threads, record_id) == threads (+) SetToBag({record_id})

\* Which statuses of the directory end the shift: the mutant that knows
\* "finished" only.
is_terminated_finished_only(st) == st = "finished"

\* EmployeeApp._is_session_finished_remote: st in ("finished", "kicked")
is_terminated(st) == st \in {"finished", "kicked"}

\* EmployeeApp._is_session_finished_remote: the status of the own session, or
\* else that of the last row of the email, is a terminated one.
is_session_finished_remote(S, email, session_id) ==
    \/ is_terminated(check_user_session_status(S, email, session_id))
    \/ LET same == {i \in 1..Len(S) : S[i].email = email}
       IN  /\ same # {}
           /\ is_terminated(S[CHOOSE i \in same : \A j \in same : j <= i].status)

\* SheetsAPI.set_active_session, called for the session of the login: the
\* session is registered active in the directory.
SetActiveSession ==
    /\ app_running
    /\ ~\E i \in 1..Len(sessions) : sessions[i].email = ClientEmail
    /\ online
    /\ sessions' = set_active_session(sessions, ClientEmail,
                                      SessionOf(ClientEmail), now)
    /\ UNCHANGED <<logVars, clockVars, auxVars, request, quota_info, pending, online, remote, senders, app_running,
                   guiVars, signalVars, batchVars, modeVars>>

\* ApplicationManager.handle_login_success, EmployeeApp.__init__ and _init_db
\* with login_was_performed: the LOGIN row is written and handed to a sender
\* thread, the window opens and force_logout is connected to it.  The shift
\* check that the constructor makes finds no LOGOUT row; the login is one
\* where it finds no terminated session either.
Login ==
    /\ app_running
    /\ ~gui_running
    /\ ~is_session_finished_remote(sessions, ClientEmail, SessionOf(ClientEmail))
    /\ ~\E r \in Range(logs) : /\ r.email = ClientEmail
                               /\ r.session_id = SessionOf(ClientEmail)
    /\ LET res == log_action(logs, sqlite_seq, now, ClientEmail, "LOGIN", 1,
                             SessionOf(ClientEmail), NULL, FALSE)
       IN  /\ logs' = res.logs
           /\ sqlite_seq' = res.seq
           /\ senders' = send_action_to_sheets(senders, res.id)
    /\ gui_running' = TRUE
    /\ shift_ended' = FALSE
    /\ UNCHANGED <<clockVars, auxVars, request, quota_info, pending, online, remote, sessions, app_running,
                   ui_shutdowns, gui_status, signalVars, batchVars, modeVars>>

\* EmployeeApp.set_status: the newest open row of the session is closed and
\* sent, then the new STATUS_CHANGE row is written open and sent.
SetStatus ==
    /\ app_running
    /\ gui_running
    /\ ~shift_ended
    /\ LET fin == finish_last_status(logs, ClientEmail, SessionOf(ClientEmail), now)
           s1 == IF fin.id # NULL THEN send_action_to_sheets(senders, fin.id)
                 ELSE senders
           res == log_action(fin.logs, sqlite_seq, now, ClientEmail,
                             "STATUS_CHANGE", 1, SessionOf(ClientEmail), NULL,
                             FALSE)
       IN  /\ logs' = res.logs
           /\ sqlite_seq' = res.seq
           /\ senders' = send_action_to_sheets(s1, res.id)
    /\ UNCHANGED <<clockVars, auxVars, request, quota_info, pending, online, remote, sessions, app_running, guiVars,
                   signalVars, batchVars, modeVars>>

\* EmployeeApp._send_action_to_sheets_worker: the row is appended to the remote
\* table and, only when log_user_actions answers True, marked synced.
SenderWorker(record_id, ok) ==
    /\ BagIn(record_id, senders)
    /\ senders' = senders (-) SetToBag({record_id})
    /\ IF ok /\ \E r \in Range(logs) : r.id = record_id
       THEN /\ online
            /\ CanAppend(1)
            /\ remote' = Append(remote, record_id)
            /\ logs' = mark_actions_synced(logs, {record_id})
       ELSE UNCHANGED <<remote, logs>>
    /\ UNCHANGED <<sqlite_seq, clockVars, auxVars, request, quota_info, pending, online, sessions, app_running,
                   guiVars, signalVars, batchVars, modeVars>>

\* EmployeeApp._log_shift_end: nothing when the session has its LOGOUT row;
\* else the open status row is closed and the LOGOUT row written, each sent at
\* once (sync) or handed to a sender thread.  ok1 and ok2: what
\* log_user_actions answers for the two rows.
log_shift_end(L, seq, R, T, t, sync, ok1, ok2) ==
    IF check_existing_logout(L, ClientEmail, SessionOf(ClientEmail))
    THEN [done |-> FALSE, logs |-> L, seq |-> seq, remote |-> R, senders |-> T]
    ELSE LET fin == finish_last_status(L, ClientEmail, SessionOf(ClientEmail), t)
             sent1 == fin.id # NULL /\ sync /\ ok1
             L1 == IF sent1 THEN mark_actions_synced(fin.logs, {fin.id})
                   ELSE fin.logs
             R1 == IF sent1 THEN Append(R, fin.id) ELSE R
             T1 == IF fin.id # NULL /\ ~sync
                   THEN send_action_to_sheets(T, fin.id) ELSE T
             res == log_action(L1, seq, t, ClientEmail, "LOGOUT", 1,
                               SessionOf(ClientEmail), t, FALSE)
             written == res.id # DUPLICATE_LOGOUT
             sent2 == written /\ sync /\ ok2
         IN  [done |-> written \/ ~sync,
              logs |-> IF sent2 THEN mark_actions_synced(res.logs, {res.id})
                       ELSE res.logs,
              seq |-> res.seq,
              remote |-> IF sent2 THEN Append(R1, res.id) ELSE R1,
              senders |-> IF ~sync THEN send_action_to_sheets(T1, res.id)
                          ELSE T1]

\* on_logout_callback (ApplicationManager.quit_application), or the last
\* window closing: the process ends, and the engine thread with it.
AppExits ==
    /\ app_running' = FALSE
    /\ gui_running' = FALSE
    /\ force_logout' = 0
    /\ EngineInit

\* EmployeeApp._auto_check_shift_ended, the 30 s timer of the window.  ok: the
\* read of the directory succeeds.
AutoCheckShiftEnded(ok) ==
    /\ app_running
    /\ gui_running
    /\ ~shift_ended
    /\ IF check_existing_logout(logs, ClientEmail, SessionOf(ClientEmail))
       THEN /\ shift_ended' = TRUE
            /\ ui_shutdowns' = ui_shutdowns + 1
            /\ UNCHANGED <<logVars, remote, senders, app_running, gui_running,
                           gui_status, signalVars, batchVars, modeVars>>
       ELSE IF ~(ok /\ online)
       THEN UNCHANGED <<logVars, remote, senders, app_running, guiVars,
                        signalVars, batchVars, modeVars>>
       ELSE /\ gui_status' = check_user_session_status(
                                 sessions, ClientEmail, SessionOf(ClientEmail))
            /\ IF is_session_finished_remote(sessions, ClientEmail,
                                             SessionOf(ClientEmail))
               THEN LET res == log_shift_end(logs, sqlite_seq, remote, senders,
                                             now, FALSE, FALSE, FALSE)
                    IN  /\ logs' = res.logs
                        /\ sqlite_seq' = res.seq
                        /\ senders' = res.senders
                        /\ shift_ended' = TRUE
                        /\ ui_shutdowns' = ui_shutdowns + 1
                        /\ AppExits
                        /\ UNCHANGED <<remote, emitted>>
               ELSE UNCHANGED <<logVars, remote, senders, app_running,
                                gui_running, shift_ended, ui_shutdowns,
                                signalVars, batchVars, modeVars>>
    /\ UNCHANGED <<clockVars, auxVars, request, quota_info, pending, online, sessions>>

\* EmployeeApp.force_logout_by_admin, the slot of the force_logout signal.
\* ok1, ok2: the two appends of _log_shift_end; okk: the update of the
\* directory, which is handed the logout time where the status is expected.
ForceLogoutByAdmin(ok1, ok2, okk) ==
    /\ app_running
    /\ gui_running
    /\ force_logout > 0
    /\ IF shift_ended
       THEN /\ force_logout' = force_logout - 1
            /\ UNCHANGED <<logVars, remote, senders, sessions, app_running,
                           guiVars, emitted, remote_status, batchVars, modeVars>>
       ELSE LET n == (IF ok1 THEN 1 ELSE 0) + (IF ok2 THEN 1 ELSE 0)
                res == log_shift_end(logs, sqlite_seq, remote, senders, now,
                                     TRUE, ok1, ok2)
            IN  /\ (ok1 \/ ok2) => online /\ CanAppend(n)
                /\ okk => online
                /\ logs' = res.logs
                /\ sqlite_seq' = res.seq
                /\ remote' = res.remote
                /\ senders' = res.senders
                /\ sessions' = IF okk
                               THEN kick_active_session(
                                        sessions, header, ClientEmail,
                                        SessionOf(ClientEmail), "logout_time", now)
                               ELSE sessions
                /\ shift_ended' = TRUE
                /\ ui_shutdowns' = ui_shutdowns + 1
                /\ AppExits
                /\ UNCHANGED <<gui_status, emitted>>
    /\ UNCHANGED <<clockVars, auxVars, request, quota_info, pending, online>>

\* The shift ends at the user's wish and the window closes.  ok: the update
\* of the directory succeeds.
UserEndsShift(ok) ==
    /\ LET res == log_shift_end(logs, sqlite_seq, remote, senders, now,
                                FALSE, FALSE, FALSE)
       IN  /\ logs' = res.logs
           /\ sqlite_seq' = res.seq
           /\ senders' = res.senders
    /\ ok => online
    /\ sessions' = IF ok
                   THEN finish_active_session(sessions, header, ClientEmail,
                                              SessionOf(ClientEmail), now)
                   ELSE sessions
    /\ shift_ended' = TRUE
    /\ AppExits
    /\ UNCHANGED <<clockVars, auxVars, request, quota_info, pending, online, remote, ui_shutdowns, gui_status, emitted>>

\* EmployeeApp.finish_shift, the user confirming.
FinishShift(ok) ==
    /\ app_running
    /\ gui_running
    /\ ~shift_ended
    /\ UserEndsShift(ok)

\* EmployeeApp.closeEvent, the user closing the window and confirming.
CloseEvent(ok) ==
    /\ app_running
    /\ gui_running
    /\ UserEndsShift(ok)

\* AdminRepo.force_logout: the administrator kicks the latest active session
\* of the email.
AdminKick ==
    /\ sessions' = kick_active_session(sessions, header, ClientEmail, NoSession,
                                     "kicked", now)
    /\ sessions' # sessions
    /\ UNCHANGED <<logVars, clockVars, auxVars, request, quota_info, pending, online, remote, senders, app_running,
                   guiVars, signalVars, batchVars, modeVars>>

\* The process ends without a LOGOUT (it is killed, the machine goes down) and
\* the application is started again: the log is opened and swept, the engine
\* runs, the login window shows.
Restart ==
    /\ app_running' = TRUE
    /\ logs' = cleanup_old_action_logs(logs, now, MAX_HISTORY_DAYS)
    /\ gui_running' = FALSE
    /\ shift_ended' = FALSE
    /\ gui_status' = "none"
    /\ force_logout' = 0
    /\ senders' = EmptyBag
    /\ EngineInit
    /\ stop_event' = FALSE
    /\ errors' = 0
    /\ db_conn' = TRUE
    /\ last_ping' = now
    /\ UNCHANGED <<sqlite_seq, clockVars, header, libVars, rateVars, worklog, request, quota_info, pending, online,
                   remote, sessions, ui_shutdowns, emitted>>

(***************************************************************************)
(* The sync engine: run_service, one cycle after the other.                *)
(***************************************************************************)

\* The mutant of watchdog_expired that waits for twice the timeout.
watchdog_expired_late(t, ping) == t - ping > 2 * PING_TIMEOUT

\* run_service: (now - self._last_ping) > PING_TIMEOUT
watchdog_expired(t, ping) == t - ping > PING_TIMEOUT

\* run_service, the head of a cycle: the mode and the interval, from the
\* probe, the recovery flag and the count of unsynced rows.
run_service_mode(is_online, recovery, queue_size) ==
    IF is_online
    THEN IF recovery
         THEN IF queue_size < DRAIN_THRESHOLD
              THEN [recovery |-> FALSE, interval |-> SYNC_INTERVAL]
              ELSE [recovery |-> TRUE,
                    interval |-> SYNC_INTERVAL_OFFLINE_RECOVERY]
         ELSE [recovery |-> FALSE, interval |-> SYNC_INTERVAL_ONLINE]
    ELSE [recovery |-> recovery, interval |-> OFFLINE_PROBE_INTERVAL]

\* sync_once: a batch of more than 100 rows switches the recovery mode on.
sync_once_mode(total, mode) ==
    IF total > RECOVERY_THRESHOLD /\ ~mode.recovery
    THEN [recovery |-> TRUE, interval |-> SYNC_INTERVAL_OFFLINE_RECOVERY]
    ELSE mode

\* run_service up to the call of _sync_batch: the probe, the mode, and
\* sync_once reading the batch.  An empty batch ends sync_once.
BeginCycle ==
    /\ app_running
    /\ e_pc = "idle"
    /\ ~stop_event
    /\ ~watchdog_expired(now, last_ping)
    /\ db_conn' = TRUE
    /\ logs' = ensure_open(logs, db_conn, now)
    /\ LET queue_size == get_unsynced_count(logs')
           head == run_service_mode(online, is_offline_recovery, queue_size)
           b == prepare_batch(logs', batch_size)
           mode == IF b = <<>> THEN head
                   ELSE sync_once_mode(total_actions(b), head)
       IN  /\ cycle' = [active |-> TRUE, online |-> online,
                        backlog |-> queue_size,
                        recovery |-> is_offline_recovery]
           /\ is_offline_recovery' = mode.recovery
           /\ sync_interval' = mode.interval
           /\ IF b = <<>>
              THEN /\ e_pc' = "check"
                   /\ UNCHANGED <<batch, grp, attempt>>
              ELSE /\ e_pc' = "attempt"
                   /\ batch' = b
                   /\ grp' = 1
                   /\ attempt' = 0
    /\ remote_status' = "none"
    /\ UNCHANGED <<synced_ids, tried, failed, batch_size>>
    /\ UNCHANGED <<sqlite_seq, clockVars, header, libVars, rateVars, worklog, stop_event, errors, last_ping,
                   request, quota_info, pending, online, remote, senders, sessions,
                   app_running, guiVars, force_logout, emitted>>

\* After a group: the next group, or the marking when it was the last one.
NextGroup ==
    /\ grp' = grp + 1
    /\ attempt' = 0
    /\ e_pc' = IF grp = Len(batch) THEN "mark" ELSE "attempt"

\* _sync_batch, one attempt of the current group, the probe finding no
\* connectivity: return False, before the ids confirmed so far are marked.
AttemptOffline ==
    /\ app_running
    /\ e_pc = "attempt"
    /\ ~online
    /\ e_pc' = "check"
    /\ BatchReset
    /\ UNCHANGED <<logVars, clockVars, auxVars, request, quota_info, pending, online, remote, senders, sessions,
                   app_running, guiVars, signalVars, modeVars>>

\* _sync_batch, one attempt: log_user_actions answers True.
AttemptOk ==
    /\ app_running
    /\ e_pc = "attempt"
    /\ online
    /\ CanAppend(Len(batch[grp].ids))
    /\ remote' = remote \o batch[grp].ids
    /\ synced_ids' = synced_ids \cup Range(batch[grp].ids)
    /\ tried' = tried \cup {grp}
    /\ NextGroup
    /\ UNCHANGED <<batch, failed>>
    /\ UNCHANGED <<logVars, clockVars, auxVars, request, quota_info, pending, online, senders, sessions, app_running,
                   guiVars, signalVars, modeVars>>

\* The mutant of attempt_failed in which a group's last failure ends the batch.
attempt_failed_aborts ==
    /\ tried' = tried \cup {grp}
    /\ IF attempt < API_MAX_RETRIES - 1
       THEN /\ attempt' = attempt + 1
            /\ UNCHANGED <<e_pc, grp, failed>>
       ELSE /\ failed' = failed \cup {grp}
            /\ grp' = Len(batch) + 1
            /\ attempt' = 0
            /\ e_pc' = "mark"

\* _sync_batch, one attempt: log_user_actions answers False or raises.  The
\* group is tried again after a sleep, API_MAX_RETRIES times in all; then the
\* loop goes on with the next group.
attempt_failed ==
    /\ tried' = tried \cup {grp}
    /\ IF attempt < API_MAX_RETRIES - 1
       THEN /\ attempt' = attempt + 1
            /\ UNCHANGED <<e_pc, grp, failed>>
       ELSE /\ failed' = failed \cup {grp}
            /\ NextGroup

AttemptFail ==
    /\ app_running
    /\ e_pc = "attempt"
    /\ online
    /\ attempt_failed
    /\ UNCHANGED <<batch, synced_ids>>
    /\ UNCHANGED <<logVars, clockVars, auxVars, request, quota_info, pending, online, remote, senders, sessions,
                   app_running, guiVars, signalVars, modeVars>>

\* _sync_batch after the loop: the confirmed ids are marked synced.
MarkSynced ==
    /\ app_running
    /\ e_pc = "mark"
    /\ logs' = mark_actions_synced(ensure_open(logs, db_conn, now), synced_ids)
    /\ e_pc' = "check"
    /\ BatchReset
    /\ db_conn' = TRUE
    /\ UNCHANGED <<sqlite_seq, clockVars, header, libVars, rateVars, worklog, stop_event, errors, last_ping, request, quota_info,
                   pending, online, remote, senders, sessions, app_running,
                   guiVars, signalVars, modeVars>>

\* SyncManager._check_remote_commands: "kicked" and "finished" are the two
\* statuses that emit force_logout.
emits_force_logout(st) == st = "kicked" \/ st = "finished"

\* SyncManager._check_remote_commands, the end of a cycle; the engine sleeps
\* and begins the next one.  ok: the read of the directory succeeds; when it
\* does not, _check_user_session_status answers "unknown".
CheckRemoteCommands(ok) ==
    /\ app_running
    /\ e_pc = "check"
    /\ emitted < MaxEmits
    /\ e_pc' = "idle"
    /\ cycle' = NoCycle
    /\ logs' = IF online THEN ensure_open(logs, db_conn, now) ELSE logs
    /\ LET email == get_current_user_email(logs')
           session_id == IF email = NoEmail THEN NoSession
                         ELSE get_last_unfinished_session(logs', email)
           st == IF ok
                 THEN check_user_session_status(sessions, email, session_id)
                 ELSE "unknown"
       IN  IF ~online \/ email = NoEmail \/ session_id = NoSession
           THEN UNCHANGED signalVars
           ELSE /\ remote_status' = st
                /\ IF emits_force_logout(st)
                   THEN /\ emitted' = emitted + 1
                        /\ force_logout' = IF gui_running THEN force_logout + 1
                                           ELSE force_logout
                   ELSE UNCHANGED <<emitted, force_logout>>
    /\ UNCHANGED <<batch, grp, attempt, synced_ids, tried, failed,
                   is_offline_recovery, sync_interval, batch_size>>
    /\ db_conn' = (online \/ db_conn)
    /\ UNCHANGED <<sqlite_seq, clockVars, header, libVars, rateVars, worklog, stop_event, errors, last_ping,
                   request, quota_info, pending, online, remote, senders, sessions,
                   app_running, guiVars>>

(***************************************************************************)
(* The network.                                                            *)
(***************************************************************************)

SetOnline(b) ==
    /\ online # b
    /\ online' = b
    /\ UNCHANGED <<logVars, clockVars, auxVars, request, quota_info, pending, remote, senders, sessions, app_running,
                   guiVars, signalVars, batchVars, modeVars>>

(***************************************************************************)
(* The engine's service loop: stop, the watchdog, a cycle that raises.     *)
(***************************************************************************)

\* SyncManager.stop, from any thread and at any time: the event is set and
\* the engine's connection is closed.
Stop ==
    /\ app_running
    /\ stop_event' = TRUE
    /\ db_conn' = FALSE
    /\ UNCHANGED <<logVars, clockVars, header, libVars, rateVars, worklog, errors, last_ping, request, quota_info, pending,
                   online, remote, senders, sessions, app_running, guiVars,
                   signalVars, batchVars, modeVars>>

\* _ping_listener: a "ping" datagram is received.  The listener runs until
\* the stop event is set.
Ping ==
    /\ app_running
    /\ ~stop_event
    /\ last_ping # now
    /\ last_ping' = now
    /\ UNCHANGED <<logVars, clockVars, header, libVars, rateVars, worklog, stop_event, errors, db_conn, request, quota_info,
                   pending, online, remote, senders, sessions, app_running,
                   guiVars, signalVars, batchVars, modeVars>>

\* run_service, the head of the loop after the sleep: the stop event is set,
\* or the watchdog has run out, and run_service returns.
LoopExit ==
    /\ app_running
    /\ e_pc = "idle"
    /\ stop_event \/ watchdog_expired(now, last_ping)
    /\ e_pc' = "exited"
    /\ UNCHANGED <<batch, grp, attempt, synced_ids, tried, failed>>
    /\ UNCHANGED <<logVars, clockVars, auxVars, request, quota_info, pending, online, remote,
                   senders, sessions, app_running, guiVars, signalVars,
                   modeVars>>

\* The mutant of cycle_raises_to in which the exception leaves run_service.
cycle_raises_out(pc) == pc = "exited"

\* run_service, except Exception: the exception is logged and the loop goes
\* on to its sleep.
cycle_raises_to(pc) == pc = "idle"

\* run_service, except Exception: a call of the cycle outside the try blocks
\* of _sync_batch and _check_remote_commands raises (sync_once before and
\* between the attempts, _update_stats, the reads of the log before the
\* directory is asked); what is left of the cycle is skipped and the loop
\* sleeps.
CycleRaises ==
    /\ app_running
    /\ e_pc \in {"attempt", "check"}
    /\ errors < MaxErrors
    /\ errors' = errors + 1
    /\ cycle_raises_to(e_pc')
    /\ BatchReset
    /\ cycle' = NoCycle
    /\ UNCHANGED <<is_offline_recovery, sync_interval, batch_size>>
    /\ UNCHANGED <<logVars, clockVars, header, libVars, rateVars, worklog, stop_event, db_conn, last_ping,
                   request, quota_info, pending, online, remote, senders, sessions,
                   app_running, guiVars, signalVars>>

(***************************************************************************)
(* The directory calls as the remote table sees them: each call reads the  *)
(* table, picks its row and, in a later request, writes the cells of that  *)
(* row; calls of the client and of the admin panel run in different        *)
(* processes and their requests interleave.  The kick that the client      *)
(* itself makes in force_logout_by_admin comes after the directory has     *)
(* answered a status other than active for its session, and finds no       *)
(* active row of that session to update.                                   *)
(***************************************************************************)

\* The read of a directory call that found the row to update.
DirectoryRead(actor, op, row, status) ==
    /\ pending[actor] = NoUpdate
    /\ row # 0
    /\ pending' = [pending EXCEPT
                      ![actor] = [op |-> op, row |-> row, status |-> status,
                                  t |-> now]]
    /\ UNCHANGED <<logVars, clockVars, auxVars, request, quota_info, online, remote, senders,
                   sessions, app_running, guiVars, signalVars, batchVars,
                   modeVars>>

\* EmployeeApp.finish_shift and closeEvent: finish_active_session(email,
\* session_id, now) has read the table.
ClientFinishRead(session_id) ==
    DirectoryRead("client", "finish",
                  finish_row(sessions, ClientEmail, session_id), "finished")

\* AdminRepo.force_logout: kick_active_session(email=email) has read the
\* table.
AdminKickRead(email) ==
    DirectoryRead("admin", "kick", kick_row(sessions, email, NoSession), "kicked")

\* The range update of a directory call; ok: the request succeeds.
DirectoryUpdate(actor, ok) ==
    /\ pending[actor] # NoUpdate
    /\ pending' = [pending EXCEPT ![actor] = NoUpdate]
    /\ sessions' =
           IF ~ok THEN sessions
           ELSE IF pending[actor].op = "finish"
           THEN finish_update(sessions, header, pending[actor].row, pending[actor].t)
           ELSE kick_update(sessions, header, pending[actor].row,
                            pending[actor].status,
                            pending[actor].t)
    /\ UNCHANGED <<logVars, clockVars, auxVars, request, quota_info, online, remote, senders,
                   app_running, guiVars, signalVars, batchVars, modeVars>>

(***************************************************************************)
(* The Remote Access Layer: SheetsAPI._request_with_retry.  Times are in    *)
(* half seconds.                                                           *)
(***************************************************************************)

HalfSeconds(seconds) == 2 * seconds

\* How an attempt ends: the call returns; the call raises an exception whose
\* text holds one of the words that count as retryable; the call raises one
\* whose text holds none (an auth failure, a malformed request); or
\* _check_quota fails and SheetsAPIError("Insufficient API quota",
\* is_retryable=True) is raised before the call is made.
Outcomes == {"ok", "retryable", "terminal", "quota"}

\* The exception of a failed attempt: is it a SheetsAPIError, what is its
\* flag, does its text hold one of the words.
ErrorOf(outcome) ==
    [typed |-> outcome = "quota",
     is_retryable |-> outcome = "quota",
     keyword |-> outcome \in {"retryable", "quota"}]

\* retryable = any(x in msg for x in ("rate limit", "quota", "429", ...))
classified_retryable(e) == e.keyword

\* The mutant of gives_up that does not count the attempts.
gives_up_terminal_only(n, e) == ~classified_retryable(e)

\* if attempt == API_MAX_RETRIES - 1 or not retryable
gives_up(n, e) ==
    n = API_MAX_RETRIES - 1 \/ ~classified_retryable(e)

\* The flag of the error that is raised: a SheetsAPIError is raised again as
\* it is, anything else is wrapped in SheetsAPIError(is_retryable=True).
raised_is_retryable(e) == IF e.typed THEN e.is_retryable ELSE TRUE

\* base = max(1.0, float(API_DELAY_SECONDS))
BaseDelay == Max(HalfSeconds(1), API_DELAY_SECONDS)

\* min_gap = 60.0 / max(1, max_requests_per_minute)
MinGap == HalfSeconds(60) \div Max(1, MAX_REQUESTS_PER_MINUTE)

\* random.uniform(0, base)
Jitters == 0..BaseDelay

\* The mutant of backoff_wait without the doubling.
backoff_wait_flat(n, jitter) == Max(BaseDelay + jitter, MinGap)

\* wait = max(base * 2 ** attempt + random.uniform(0, base), min_gap)
backoff_wait(n, jitter) ==
    Max(BaseDelay * 2 ^ n + jitter, MinGap)

\* How the underlying call of an attempt ends, when it is made.
CallResults == {"ok", "retryable", "terminal"}

\* What the refresh of the quota finds: the remaining calls that the service
\* reports, or NULL when the refresh fails.
QuotaAnswers == {NULL} \cup 0..MaxQuota

\* _update_quota_info: remaining as reported; when the refresh fails,
\* max(1, remaining).
update_quota_info(remaining, fresh) ==
    IF fresh = NULL THEN Max(1, remaining) ELSE fresh

\* The mutant of check_quota that does not look at the refreshed quota.
check_quota_no_recheck(remaining, fresh) ==
    IF remaining >= 1
    THEN [ok |-> TRUE, remaining |-> remaining, seen |-> <<remaining, NULL>>]
    ELSE LET r == update_quota_info(remaining, fresh)
         IN  [ok |-> TRUE, remaining |-> r, seen |-> <<remaining, r>>]

\* _check_quota(required=1): True when remaining >= 1; else the wait for the
\* reset, one _update_quota_info, and the answer remaining >= 1 of the
\* refreshed quota.  seen: the values that the two comparisons read, NULL for
\* a comparison that was not made.
check_quota(remaining, fresh) ==
    IF remaining >= 1
    THEN [ok |-> TRUE, remaining |-> remaining, seen |-> <<remaining, NULL>>]
    ELSE LET r == update_quota_info(remaining, fresh)
         IN  [ok |-> r >= 1, remaining |-> r, seen |-> <<remaining, r>>]

\* No call is running.
NoRequest ==
    [pc |-> "idle", attempt |-> 0, calls |-> 0, waits |-> <<>>,
     outcomes |-> <<>>, gates |-> <<>>, typed |-> FALSE,
     is_retryable |-> FALSE]

\* _request_with_retry is called.
RequestStart ==
    /\ request.pc = "idle"
    /\ request' = [request EXCEPT !.pc = "running"]
    /\ UNCHANGED <<logVars, clockVars, auxVars, quota_info, pending, online, remote, senders, sessions,
                   app_running, guiVars, signalVars, batchVars, modeVars>>

\* One pass of the loop of _request_with_retry: the quota gate, to whose
\* refresh the service answers fresh; the call, made when the gate lets it
\* through and ending with result; the remaining quota counted down after a
\* call that returned.  When the attempt is to be repeated, the loop sleeps
\* the wait that jitter gives.  A loop that ran out of passes would raise the
\* last exception as it is.
RequestAttempt(result, fresh, jitter) ==
    /\ request.pc = "running"
    /\ LET q == check_quota(quota_info.remaining, fresh)
           outcome == IF q.ok THEN result ELSE "quota"
           e == ErrorOf(outcome)
           tried_call == [request EXCEPT
                             !.calls = IF q.ok THEN @ + 1 ELSE @,
                             !.outcomes = Append(@, outcome),
                             !.gates = Append(@, q.seen)]
       IN  /\ quota_info' = [remaining |-> IF outcome = "ok"
                                            THEN Max(0, q.remaining - 1)
                                            ELSE q.remaining]
           /\ request' =
               IF outcome = "ok"
               THEN [tried_call EXCEPT !.pc = "returned"]
               ELSE IF gives_up(request.attempt, e)
               THEN [tried_call EXCEPT !.pc = "raised",
                                       !.typed = TRUE,
                                       !.is_retryable = raised_is_retryable(e)]
               ELSE IF request.attempt + 1 < API_MAX_RETRIES
               THEN [tried_call EXCEPT
                        !.attempt = @ + 1,
                        !.waits = Append(@, backoff_wait(request.attempt, jitter))]
               ELSE [tried_call EXCEPT
                        !.pc = "raised",
                        !.waits = Append(@, backoff_wait(request.attempt, jitter)),
                        !.typed = e.typed,
                        !.is_retryable = e.is_retryable]
    /\ UNCHANGED <<logVars, clockVars, auxVars, pending, online, remote, senders, sessions,
                   app_running, guiVars, signalVars, batchVars, modeVars>>

(***************************************************************************)
(* The table of a batch: SheetsAPI.log_user_actions.  A name of a group is  *)
(* its letters, lower case, and how it is written.                         *)
(***************************************************************************)

GroupName(stem, casing) == [stem |-> stem, casing |-> casing]

\* No group: None or the empty string.
NoGroup == GroupName("", "lower")

\* A group of white space only.
BlankGroup == GroupName(" ", "lower")

\* str.strip()
strip(name) == IF name = BlankGroup THEN NoGroup ELSE name

\* str.title()
title(name) == IF name.stem \in {"", " "} THEN name
               ELSE GroupName(name.stem, "title")

\* config.GROUP_MAPPING, in the order of the dict.
GROUP_MAPPING ==
    <<[key |-> "call", group |-> GroupName("incoming", "title")],
      [key |-> "appointment", group |-> GroupName("booking", "title")],
      [key |-> "mail", group |-> GroupName("mail", "title")],
      [key |-> "dental", group |-> GroupName("dental", "title")],
      [key |-> "default", group |-> GroupName("incoming", "title")]>>

\* The group that log_user_actions and _determine_user_group end with.
DEFAULT_GROUP == GroupName("incoming", "title")

\* What get_user_by_email finds: the read fails, there is no row of the
\* email, or the Group cell of its row.
UserLookup(answer, group) == [answer |-> answer, group |-> group]

UserLookups ==
    {UserLookup("raises", NoGroup), UserLookup("absent", NoGroup)} \cup
    {UserLookup("row", g) : g \in {NoGroup, BlankGroup, GroupName("mail", "title"),
                                     GroupName("booking", "lower")}}

\* The group of the row in Users, NoGroup when there is none.
users_group(users) ==
    IF users.answer = "row" THEN strip(users.group) ELSE NoGroup

\* for k, v in GROUP_MAPPING.items(): if k.lower() in email_prefix: the
\* first key of the mapping that the part of the email before the @ holds.
\* keys: the keys that it holds.
mapped_group(keys) ==
    LET hits == {i \in 1..Len(GROUP_MAPPING) : GROUP_MAPPING[i].key \in keys}
    IN  IF hits = {} THEN NoGroup
        ELSE title(GROUP_MAPPING[CHOOSE i \in hits : \A j \in hits : i <= j].group)

\* The mutant of _determine_user_group that asks the mapping first.
determine_user_group_by_prefix(users, keys) ==
    IF mapped_group(keys) # NoGroup THEN mapped_group(keys)
    ELSE IF users_group(users) # NoGroup THEN users_group(users)
    ELSE DEFAULT_GROUP

\* SheetsAPI._determine_user_group: Users.Group, then the mapping of the
\* prefix, then the default.  A lookup that raises is a lookup that found
\* nothing.
determine_user_group(users, keys) ==
    IF users_group(users) # NoGroup THEN users_group(users)
    ELSE IF mapped_group(keys) # NoGroup THEN mapped_group(keys)
    ELSE DEFAULT_GROUP

\* group = (user_group or "").strip() or self._determine_user_group(email)
resolved_group(user_group, users, keys) ==
    IF strip(user_group) # NoGroup THEN strip(user_group)
    ELSE determine_user_group(users, keys)

\* SheetsAPI.log_user_actions for a batch that is not empty, the append
\* succeeding.  tables: the groups whose WorkLog_ table can be opened.  When
\* the table of the resolved group cannot, the table of the group in Users is
\* taken, or of the default when Users has none; every exception ends the
\* call with False.
log_user_actions(user_group, users, keys, tables) ==
    LET group == resolved_group(user_group, users, keys)
        grp2 == IF users_group(users) # NoGroup THEN users_group(users)
                ELSE DEFAULT_GROUP
    IN  IF group \in tables
        THEN [group |-> group, sheet |-> group, ok |-> TRUE]
        ELSE IF users.answer = "raises" \/ grp2 \notin tables
        THEN [group |-> group, sheet |-> NoGroup, ok |-> FALSE]
        ELSE [group |-> group, sheet |-> grp2, ok |-> TRUE]

\* No call of log_user_actions has been made.
NoTarget ==
    [done |-> FALSE, user_group |-> NoGroup,
     users |-> UserLookup("absent", NoGroup), keys |-> {},
     tables |-> {}, group |-> NoGroup, sheet |-> NoGroup, ok |-> FALSE]

\* The groups passed with a batch, the keys that the prefix of an email can
\* hold, and the tables of the spreadsheet.
ExplicitGroups == {NoGroup, BlankGroup, GroupName("dental", "title")}
PrefixKeys == {{}, {"mail"}, {"mail", "call"}, {"default"}}
TableSets ==
    SUBSET {DEFAULT_GROUP, GroupName("mail", "title"), GroupName("dental", "title")}

\* A call of log_user_actions.
LogUserActions ==
    /\ ~worklog.done
    /\ LET res == log_user_actions(worklog.user_group, worklog.users, worklog.keys,
                                   worklog.tables)
       IN  worklog' = [worklog EXCEPT !.done = TRUE, !.group = res.group,
                                    !.sheet = res.sheet, !.ok = res.ok]
    /\ UNCHANGED <<logVars, clockVars, header, libVars, serviceVars, rateVars, request,
                   quota_info, pending, online, remote, senders, sessions,
                   app_running, guiVars, signalVars, batchVars, modeVars>>

\* The next batch: any explicit group, any answer of Users, any email, any
\* set of tables.
NewTarget ==
    /\ worklog.done
    /\ \E g \in ExplicitGroups, u \in UserLookups, k \in PrefixKeys, t \in TableSets :
           worklog' = [NoTarget EXCEPT !.user_group = g, !.users = u, !.keys = k,
                                      !.tables = t]
    /\ UNCHANGED <<logVars, clockVars, header, libVars, serviceVars, rateVars, request,
                   quota_info, pending, online, remote, senders, sessions,
                   app_running, guiVars, signalVars, batchVars, modeVars>>

NextTarget == LogUserActions \/ NewTarget

(***************************************************************************)
(* The rate limit: SheetsAPI._check_rate_limit and the call after it, as   *)
(* the threads of the process run them.  Times are in half seconds.        *)
(***************************************************************************)

\* The threads that call the layer: the engine's loop and a sender thread of
\* the client window.
Callers == {"engine", "sender"}

NotCalling == [pc |-> "idle", wake |-> 0]

\* _check_rate_limit, the test: when a call was made less than delay ago,
\* sleep for what is missing; the time at which the thread goes on.
rate_limit_wake(t, last, delay) ==
    IF last # NULL /\ t - last < delay THEN t + (delay - (t - last)) ELSE t

\* A thread enters _check_rate_limit: it reads _last_request_time and the
\* clock and, when it has to, goes to sleep.
RateCheck(c) ==
    /\ callers[c].pc = "idle"
    /\ Len(call_starts) < MaxCalls
    /\ callers' = [callers EXCEPT ![c] =
                       [pc |-> "waiting",
                        wake |-> rate_limit_wake(rate_clock, last_request_time,
                                                 API_DELAY_SECONDS)]]
    /\ UNCHANGED <<rate_clock, last_request_time, call_starts>>
    /\ UNCHANGED <<logVars, clockVars, header, libVars, worklog, serviceVars, request, quota_info,
                   pending, online, remote, senders, sessions, app_running,
                   guiVars, signalVars, batchVars, modeVars>>

\* The thread has slept, or had not to: it sets _last_request_time to the
\* clock and starts the call.
RateCall(c) ==
    /\ callers[c].pc = "waiting"
    /\ rate_clock >= callers[c].wake
    /\ last_request_time' = rate_clock
    /\ call_starts' = Append(call_starts, rate_clock)
    /\ callers' = [callers EXCEPT ![c] = NotCalling]
    /\ UNCHANGED rate_clock
    /\ UNCHANGED <<logVars, clockVars, header, libVars, worklog, serviceVars, request, quota_info,
                   pending, online, remote, senders, sessions, app_running,
                   guiVars, signalVars, batchVars, modeVars>>

\* Half a second passes.
RateTick ==
    /\ rate_clock < MaxClock
    /\ rate_clock' = rate_clock + 1
    /\ UNCHANGED <<last_request_time, callers, call_starts>>
    /\ UNCHANGED <<logVars, clockVars, header, libVars, worklog, serviceVars, request, quota_info,
                   pending, online, remote, senders, sessions, app_running,
                   guiVars, signalVars, batchVars, modeVars>>

\* The calls of the engine and of a sender thread, in any interleaving.
NextRate ==
    \/ \E c \in Callers : RateCheck(c)
    \/ \E c \in Callers : RateCall(c)
    \/ RateTick

(***************************************************************************)
(* Opening the local log: LocalDB.__init__, _bootstrap_open, open,         *)
(* _ensure_open and close.  A connection is named by the path it was       *)
(* opened on.                                                              *)
(***************************************************************************)
\* config.LOCAL_DB_PATH, the fallback under the home directory, sqlite's
\* in-memory database, and None.
LOCAL_DB_PATH == "local_backup.db"
home_fallback == "~/WorkTimeTracker/local_backup.db"
MEMORY == ":memory:"
NoPath == ""
DbPaths == {LOCAL_DB_PATH, home_fallback}

\* LocalDB.__init__ before _bootstrap_open: no connection, no path.  Field
\* opens lists the paths that the running lifecycle call has tried, field
\* call names that call.
NewDb == [conn |-> NoPath, db_path |-> NoPath, opened_path |-> NoPath, opens |-> <<>>, call |-> "init"]

\* LocalDB.open(path) when the paths in usable can be opened: db_path is set
\* first; a path that opens gives the connection and _opened_path, a path
\* that does not (mkdir or sqlite3 fails) leaves no connection and raises.
open(db, path, usable) ==
    IF path \in usable
    THEN [db EXCEPT !.conn = path, !.db_path = path, !.opened_path = path,
                    !.opens = Append(db.opens, path)]
    ELSE [db EXCEPT !.conn = NoPath, !.db_path = path,
                    !.opens = Append(db.opens, path)]

\* The in-memory database of the last resort.
open_memory(db) ==
    [db EXCEPT !.conn = MEMORY, !.db_path = NoPath, !.opened_path = NoPath,
               !.opens = Append(db.opens, MEMORY)]

\* The mutant of _bootstrap_open that stops after the fallback.
bootstrap_open_no_memory(db, primary_path, usable) ==
    LET first == open(db, primary_path, usable)
    IN  IF first.conn # NoPath THEN first ELSE open(first, home_fallback, usable)

\* LocalDB._bootstrap_open(primary_path): the primary path, then the home
\* fallback, then ":memory:".
bootstrap_open(db, primary_path, usable) ==
    LET first == open(db, primary_path, usable)
        second == open(first, home_fallback, usable)
    IN  IF first.conn # NoPath THEN first
        ELSE IF second.conn # NoPath THEN second
        ELSE open_memory(second)

\* The path that _ensure_open starts from:
\* self._opened_path or self.db_path or LOCAL_DB_PATH.
reopen_base(db) ==
    IF db.opened_path # NoPath THEN db.opened_path
    ELSE IF db.db_path # NoPath THEN db.db_path
    ELSE LOCAL_DB_PATH

\* LocalDB._ensure_open: nothing when the connection is there; else open on
\* the base path, and when that raises _bootstrap_open from the base path.
ensure_open_conn(db, usable) ==
    IF db.conn # NoPath THEN db
    ELSE LET first == open(db, reopen_base(db), usable)
         IN  IF first.conn # NoPath THEN first
             ELSE bootstrap_open(first, reopen_base(db), usable)

\* LocalDB.close: the connection is dropped, the paths stay.
close(db) == [db EXCEPT !.conn = NoPath]

\* LocalDB() is constructed (EmployeeApp._init_db, get_db): __init__ with
\* LOCAL_DB_PATH.
LocalDBInit ==
    /\ db_opens < MaxOpens
    /\ local_db' = bootstrap_open(NewDb, LOCAL_DB_PATH, usable_paths)
    /\ db_opens' = db_opens + 1
    /\ UNCHANGED <<coreVars, closeVars, apiVars, lockVars, queueVars, cacheVars, usable_paths>>

\* A call of the log finds the connection closed and opens it again.
DbEnsureOpen ==
    /\ db_opens < MaxOpens
    /\ local_db.conn = NoPath
    /\ local_db' = ensure_open_conn([local_db EXCEPT !.opens = <<>>, !.call = "reopen"], usable_paths)
    /\ db_opens' = db_opens + 1
    /\ UNCHANGED <<coreVars, closeVars, apiVars, lockVars, queueVars, cacheVars, usable_paths>>

\* LocalDB.close is called (SyncManager.stop, EmployeeApp.closeEvent).
DbClose ==
    /\ local_db.conn # NoPath
    /\ local_db' = close([local_db EXCEPT !.opens = <<>>, !.call = "close"])
    /\ UNCHANGED <<coreVars, closeVars, apiVars, lockVars, queueVars, cacheVars, usable_paths, db_opens>>

\* The file system changes: a path becomes unusable (disk full, directory
\* not writable, file damaged) or usable again.
PathChanges(path) ==
    /\ usable_paths' = IF path \in usable_paths THEN usable_paths \ {path}
                       ELSE usable_paths \cup {path}
    /\ UNCHANGED <<coreVars, closeVars, apiVars, lockVars, queueVars, cacheVars, local_db, db_opens>>

NextOpen ==
    \/ LocalDBInit
    \/ DbEnsureOpen
    \/ DbClose
    \/ \E path \in DbPaths : PathChanges(path)

(***************************************************************************)
(* The table handles: SheetsAPI.get_worksheet and the calls made through   *)
(* the handle it returns.  A table of the remote book has an id, which a   *)
(* handle keeps; a table deleted and created again has a new id.           *)
(***************************************************************************)
SheetNames == {"WorkLog_Sales", "ActiveSessions"}

\* No call was made yet.
NoCall == [name |-> "", cached |-> FALSE, stale |-> FALSE, ok |-> FALSE, n |-> 0]

\* Does handle h still name a table of the book?
handle_valid(book, name, h) == book[name].there /\ book[name].id = h

\* get_worksheet for a name that is not cached: the book is opened and the
\* table resolved, which gives the handle of the table that is there now.
resolve_worksheet(cache, book, name, resolves) ==
    IF book[name].there /\ resolves
    THEN [raised |-> FALSE, handle |-> book[name].id,
          cache |-> [cache EXCEPT ![name] = book[name].id]]
    ELSE [raised |-> TRUE, handle |-> 0, cache |-> cache]

\* SheetsAPI.get_worksheet(sheet_name): the cached handle when the name is in
\* _sheet_cache, without a remote call; else the book is opened and the
\* table resolved (resolves: the two remote calls get through), the handle
\* cached; a table that is not found raises SheetsAPIError.
get_worksheet(cache, book, name, resolves) ==
    IF cache[name] # 0
    THEN [raised |-> FALSE, handle |-> cache[name], cache |-> cache]
    ELSE resolve_worksheet(cache, book, name, resolves)

\* A call of the layer on table name (ws.append_rows in log_user_actions,
\* ws.get_all_values, ws.batch_update): the handle comes from get_worksheet
\* and the call is made once with it; it raises when the handle is stale.
\* Nothing removes a name from _sheet_cache.
WorksheetCall(name, resolves) ==
    /\ ws_call.n < MaxCalls
    /\ LET got == get_worksheet(sheet_cache, sheets, name, resolves)
       IN  /\ sheet_cache' = got.cache
           /\ ws_call' = [name |-> name,
                          cached |-> sheet_cache[name] # 0,
                          stale |-> sheet_cache[name] # 0
                                    /\ ~handle_valid(sheets, name, sheet_cache[name]),
                          ok |-> ~got.raised /\ handle_valid(sheets, name, got.handle),
                          n |-> ws_call.n + 1]
    /\ UNCHANGED <<coreVars, closeVars, apiVars, lockVars, queueVars, dbVars, sheets>>

\* Upstream, somebody deletes or renames the table.
SheetDeleted(name) ==
    /\ sheets[name].there
    /\ sheets' = [sheets EXCEPT ![name].there = FALSE]
    /\ UNCHANGED <<coreVars, closeVars, apiVars, lockVars, queueVars, dbVars, sheet_cache, ws_call>>

\* Upstream, somebody creates a table of that name again.
SheetCreated(name) ==
    /\ ~sheets[name].there
    /\ sheets[name].id < MaxSheetIds
    /\ sheets' = [sheets EXCEPT ![name] = [id |-> @.id + 1, there |-> TRUE]]
    /\ UNCHANGED <<coreVars, closeVars, apiVars, lockVars, queueVars, dbVars, sheet_cache, ws_call>>

NextHandles ==
    \/ \E name \in SheetNames, resolves \in BOOLEAN : WorksheetCall(name, resolves)
    \/ \E name \in SheetNames : SheetDeleted(name)
    \/ \E name \in SheetNames : SheetCreated(name)

(***************************************************************************)
(* The persisted queue (sync/sync_queue.py).  An entry is                  *)
(* [id, retry_count, timestamp]; self.lock is a threading.Lock, which the  *)
(* thread that holds it cannot take again.                                 *)
(***************************************************************************)
NoThread == ""
QUEUE_MAX_RETRIES == 5
QUEUE_DAYS == 7

\* A thread that is in no operation of the queue.
QueueIdle == [op |-> "", pc |-> "idle", ids |-> {}, success |-> FALSE]

QueueOps == {"add_actions", "mark_as_attempted", "clear_processed", "retry_failed_actions", "clean_old_entries"}

QueueIds(Q) == {Q[i].id : i \in 1..Len(Q)}

\* SyncQueue.add_actions, under the lock: the action is appended as a new
\* entry with a fresh id; the queue is saved.
add_actions(Q, t) ==
    [queue |-> Append(Q, [id |-> CHOOSE i \in 1..(Len(Q) + 1) : i \notin QueueIds(Q),
                          retry_count |-> 0, timestamp |-> t]),
     save |-> TRUE]

\* SyncQueue.mark_as_attempted, under the lock: the entries named are
\* removed after a success and counted up after a failure; the queue is
\* saved.
mark_as_attempted(Q, ids, success) ==
    [queue |-> IF success THEN SelectSeq(Q, LAMBDA a : a.id \notin ids)
               ELSE [i \in 1..Len(Q) |->
                        IF Q[i].id \in ids
                        THEN [Q[i] EXCEPT !.retry_count = @ + 1] ELSE Q[i]],
     save |-> TRUE]

\* SyncQueue.clear_processed, under the lock: the entries named are removed;
\* the queue is saved when one was removed.
clear_processed(Q, ids) ==
    [queue |-> SelectSeq(Q, LAMBDA a : a.id \notin ids),
     save |-> QueueIds(Q) \cap ids # {}]

\* SyncQueue.retry_failed_actions, under the lock: the entries below
\* max_retries get a new next_retry (an entry of the queue never has a
\* successful last attempt, for success removes it); the queue is saved when
\* one was updated.
retry_failed_actions(Q, max_retries) ==
    [queue |-> Q,
     save |-> \E i \in 1..Len(Q) : Q[i].retry_count < max_retries]

\* SyncQueue.clean_old_entries, under the lock: the entries older than days
\* are removed; the queue is saved when one was removed.
clean_old_entries(Q, t, days) ==
    [queue |-> SelectSeq(Q, LAMBDA a : a.timestamp >= t - days * DAY),
     save |-> \E i \in 1..Len(Q) : Q[i].timestamp < t - days * DAY]

\* The body of operation op, between taking the lock and saving.
queue_body(Q, op, ids, success, t) ==
    CASE op = "add_actions" -> add_actions(Q, t)
      [] op = "mark_as_attempted" -> mark_as_attempted(Q, ids, success)
      [] op = "clear_processed" -> clear_processed(Q, ids)
      [] op = "retry_failed_actions" -> retry_failed_actions(Q, QUEUE_MAX_RETRIES)
      [] op = "clean_old_entries" -> clean_old_entries(Q, t, QUEUE_DAYS)

\* SyncQueue.__init__ ends with file content Q loaded, nobody in a call.
InitQueue(Q) ==
    /\ queue = Q
    /\ queue_file = Q
    /\ queue_lock = NoThread
    /\ queue_pc = [c \in Callers |-> QueueIdle]

\* Thread c calls an operation of the queue.  add_actions, mark_as_attempted
\* and clear_processed return at once when their list is empty, which is no
\* step; else the thread goes for the lock.  ids and success are the
\* arguments of mark_as_attempted and clear_processed.
QueueCall(c, op, ids, success) ==
    /\ queue_pc[c].pc = "idle"
    /\ IF op \in {"mark_as_attempted", "clear_processed"} THEN ids # {} ELSE ids = {}
    /\ success => op = "mark_as_attempted"
    /\ op = "add_actions" =>
          Len(queue) + Cardinality({d \in Callers : queue_pc[d].op = "add_actions"}) < MaxQueue
    /\ queue_pc' = [queue_pc EXCEPT ![c] = [op |-> op, pc |-> "lock", ids |-> ids, success |-> success]]
    /\ UNCHANGED <<coreVars, closeVars, apiVars, lockVars, dbVars, cacheVars, queue, queue_file, queue_lock>>

\* with self.lock: the thread takes the lock when nobody holds it.
QueueLock(c) ==
    /\ queue_pc[c].pc = "lock"
    /\ queue_lock = NoThread
    /\ queue_lock' = c
    /\ queue_pc' = [queue_pc EXCEPT ![c].pc = "body"]
    /\ UNCHANGED <<coreVars, closeVars, apiVars, lockVars, dbVars, cacheVars, queue, queue_file>>

\* The body of the operation, under the lock: the queue is changed; then
\* either _save_queue is called, still inside the with block, or the block
\* ends, the lock is released and the operation returns.
QueueBody(c) ==
    /\ queue_pc[c].pc = "body"
    /\ LET res == queue_body(queue, queue_pc[c].op, queue_pc[c].ids, queue_pc[c].success, now)
       IN  /\ queue' = res.queue
           /\ IF res.save
              THEN /\ queue_pc' = [queue_pc EXCEPT ![c].pc = "save"]
                   /\ UNCHANGED queue_lock
              ELSE /\ queue_pc' = [queue_pc EXCEPT ![c] = QueueIdle]
                   /\ queue_lock' = NoThread
    /\ UNCHANGED <<coreVars, closeVars, apiVars, lockVars, dbVars, cacheVars, queue_file>>

\* SyncQueue._save_queue: with self.lock (taken when nobody holds it, the
\* calling thread included), the queue is written to the file and the lock
\* released; back in the caller, the with block of the operation ends and the
\* operation returns.
QueueSave(c) ==
    /\ queue_pc[c].pc = "save"
    /\ queue_lock = NoThread
    /\ queue_file' = queue
    /\ queue_pc' = [queue_pc EXCEPT ![c] = QueueIdle]
    /\ UNCHANGED <<coreVars, closeVars, apiVars, lockVars, dbVars, cacheVars, queue, queue_lock>>

\* SyncQueue.__init__ while no call is running (the process starts again):
\* a new lock, and _load_queue reads the file; a file that cannot be read
\* gives the empty queue, and _save_queue is called, here outside any lock.
QueueInit(c, readable) ==
    /\ \A d \in Callers : queue_pc[d].pc = "idle"
    /\ queue_lock' = NoThread
    /\ queue' = IF readable THEN queue_file ELSE <<>>
    /\ queue_pc' = IF readable THEN queue_pc
                   ELSE [queue_pc EXCEPT ![c] = [QueueIdle EXCEPT !.op = "load", !.pc = "save"]]
    /\ UNCHANGED <<coreVars, closeVars, apiVars, lockVars, dbVars, cacheVars, queue_file>>

\* What a thread does once it is in a call.
QueueStep(c) == QueueLock(c) \/ QueueBody(c) \/ QueueSave(c)

NextQueue ==
    \/ \E c \in Callers, op \in QueueOps, ids \in SUBSET (1..MaxQueue), success \in BOOLEAN :
          QueueCall(c, op, ids, success)
    \/ \E c \in Callers : QueueLock(c)
    \/ \E c \in Callers : QueueBody(c)
    \/ \E c \in Callers : QueueSave(c)
    \/ \E c \in Callers, readable \in BOOLEAN : QueueInit(c, readable)

(***************************************************************************)
(* The mutex of the local log (LocalDB._lock) and the remote calls: the    *)
(* window's thread in set_status, a sender thread in                       *)
(* _send_action_to_sheets_worker, the engine's thread in _sync_batch.      *)
(***************************************************************************)
Threads == {"gui", "sender", "engine"}
PERSONAL_RULES_ENABLED == TRUE
PERSONAL_STATUS_LIMIT_PER_WINDOW == 12

\* A thread is inside a remote call: a call of the remote store, or the
\* delivery of a notification.
InRemoteCall(c) == lock_pc[c] \in {"remote", "notify"}

\* personal_rules.on_status_committed after its insert, with cnt rows in the
\* window: does it go on to TelegramNotifier.send_personal?  configured: the
\* bot token is set, so that TelegramNotifier() does not raise.
sends_personal_alert(cnt, configured) ==
    PERSONAL_RULES_ENABLED /\ cnt > PERSONAL_STATUS_LIMIT_PER_WINDOW /\ configured

\* Nobody holds the lock, every thread is idle, cnt status events are in the
\* window.
InitLocks(cnt) ==
    /\ db_lock = NoThread
    /\ lock_pc = [c \in Threads |-> "idle"]
    /\ status_events = cnt

\* _send_action_to_sheets: a sender thread is started for the row (one
\* sender thread is followed).
start_sender(pc) == IF pc["sender"] = "idle" THEN [pc EXCEPT !["sender"] = "read"] ELSE pc

\* EmployeeApp.set_status, step 1, up to the call of on_status_committed:
\* with self.db._lock the open row of the session is looked up (found) and
\* closed; on_status_committed inserts its status event and counts the
\* window, and with more than the limit it sends the personal alert, still
\* inside the with block.  When no row is found the block ends at once.
SetStatusLocked(found, configured) ==
    /\ lock_pc["gui"] = "idle"
    /\ db_lock = NoThread
    /\ status_events < MaxStatusEvents
    /\ IF found
       THEN /\ db_lock' = "gui"
            /\ status_events' = IF PERSONAL_RULES_ENABLED THEN status_events + 1
                                ELSE status_events
            /\ lock_pc' = [lock_pc EXCEPT !["gui"] =
                              IF sends_personal_alert(status_events', configured)
                              THEN "notify" ELSE "spawn"]
       ELSE /\ lock_pc' = [lock_pc EXCEPT !["gui"] = "log"]
            /\ UNCHANGED <<db_lock, status_events>>
    /\ UNCHANGED <<coreVars, closeVars, apiVars, dbVars, cacheVars, queueVars>>

\* TelegramNotifier.send_personal returns: the Users table was read
\* (_resolve_chat_id), the message posted (_send_text) and the audit row
\* appended (_audit).
NotifyReturns ==
    /\ lock_pc["gui"] = "notify"
    /\ lock_pc' = [lock_pc EXCEPT !["gui"] = "spawn"]
    /\ UNCHANGED <<coreVars, closeVars, apiVars, dbVars, cacheVars, queueVars, db_lock, status_events>>

\* set_status, the end of the with block: the sender thread for the closed
\* row is started and the lock released.
SetStatusUnlock ==
    /\ lock_pc["gui"] = "spawn"
    /\ db_lock' = NoThread
    /\ lock_pc' = [start_sender(lock_pc) EXCEPT !["gui"] = "log"]
    /\ UNCHANGED <<coreVars, closeVars, apiVars, dbVars, cacheVars, queueVars, status_events>>

\* set_status, step 2: log_action writes the new row, taking and releasing
\* the lock, and its sender thread is started.
SetStatusLogs ==
    /\ lock_pc["gui"] = "log"
    /\ db_lock = NoThread
    /\ lock_pc' = [start_sender(lock_pc) EXCEPT !["gui"] = "idle"]
    /\ UNCHANGED <<coreVars, closeVars, apiVars, dbVars, cacheVars, queueVars, db_lock, status_events>>

\* The engine begins a cycle: _prepare_batch reads the log, taking and
\* releasing the lock inside get_unsynced_actions.
EnginePrepares ==
    /\ lock_pc["engine"] = "idle"
    /\ db_lock = NoThread
    /\ lock_pc' = [lock_pc EXCEPT !["engine"] = "send"]
    /\ UNCHANGED <<coreVars, closeVars, apiVars, dbVars, cacheVars, queueVars, db_lock, status_events>>

\* The sender thread reads its row: get_action_by_id takes and releases the
\* lock.
SenderReads ==
    /\ lock_pc["sender"] = "read"
    /\ db_lock = NoThread
    /\ lock_pc' = [lock_pc EXCEPT !["sender"] = "send"]
    /\ UNCHANGED <<coreVars, closeVars, apiVars, dbVars, cacheVars, queueVars, db_lock, status_events>>

\* sheets_api.log_user_actions is called (by the engine or the sender).
RemoteCallBegins(c) ==
    /\ c \in {"engine", "sender"}
    /\ lock_pc[c] = "send"
    /\ lock_pc' = [lock_pc EXCEPT ![c] = "remote"]
    /\ UNCHANGED <<coreVars, closeVars, apiVars, dbVars, cacheVars, queueVars, db_lock, status_events>>

\* log_user_actions returns; after True the rows are to be marked.
RemoteCallReturns(c, ok) ==
    /\ c \in {"engine", "sender"}
    /\ lock_pc[c] = "remote"
    /\ lock_pc' = [lock_pc EXCEPT ![c] = IF ok THEN "mark" ELSE "idle"]
    /\ UNCHANGED <<coreVars, closeVars, apiVars, dbVars, cacheVars, queueVars, db_lock, status_events>>

\* mark_actions_synced takes and releases the lock.
MarksSynced(c) ==
    /\ lock_pc[c] = "mark"
    /\ db_lock = NoThread
    /\ lock_pc' = [lock_pc EXCEPT ![c] = "idle"]
    /\ UNCHANGED <<coreVars, closeVars, apiVars, dbVars, cacheVars, queueVars, db_lock, status_events>>

\* Time passes: the oldest status event leaves the window.
StatusEventAges ==
    /\ status_events > 0
    /\ status_events' = status_events - 1
    /\ UNCHANGED <<coreVars, closeVars, apiVars, dbVars, cacheVars, queueVars, db_lock, lock_pc>>

NextLocks ==
    \/ \E found, configured \in BOOLEAN : SetStatusLocked(found, configured)
    \/ NotifyReturns
    \/ SetStatusUnlock
    \/ SetStatusLogs
    \/ EnginePrepares
    \/ SenderReads
    \/ \E c \in Threads : RemoteCallBegins(c)
    \/ \E c \in Threads, ok \in BOOLEAN : RemoteCallReturns(c, ok)
    \/ \E c \in Threads : MarksSynced(c)
    \/ StatusEventAges

(***************************************************************************)
(* The one client object: SheetsAPI.__new__ and _initialize, reached       *)
(* through _LazySheetsAPI._ensure and get_sheets_api.                       *)
(***************************************************************************)
\* SheetsAPI._instance is None.
NoInstance == [id |-> 0, state |-> "none"]

\* A thread that is not in SheetsAPI() and holds no result of it.
NotObtaining == [pc |-> "idle", id |-> 0, state |-> "none"]

\* return cls._instance: the caller receives the object that _instance names
\* now, in the state it is in now.
received(inst) == [pc |-> "has", id |-> inst.id, state |-> inst.state]

\* SheetsAPI.__new__, the first test, outside the lock: an _instance that is
\* not None is returned as it is; else the thread goes for the lock.
NewChecks(c) ==
    /\ api_pc[c].pc = "idle"
    /\ api_pc' = [api_pc EXCEPT ![c] =
                     IF api_instance.id # 0 THEN received(api_instance)
                     ELSE [NotObtaining EXCEPT !.pc = "lock"]]
    /\ UNCHANGED <<coreVars, closeVars, dbVars, cacheVars, queueVars, lockVars, api_instance, api_lock>>

\* with cls._lock, the second test: an _instance set meanwhile is returned;
\* else the object is created and assigned to _instance, and _initialize
\* begins.
NewLocks(c) ==
    /\ api_pc[c].pc = "lock"
    /\ api_lock = NoThread
    /\ IF api_instance.id # 0
       THEN /\ api_pc' = [api_pc EXCEPT ![c] = received(api_instance)]
            /\ UNCHANGED <<api_instance, api_lock>>
       ELSE /\ api_instance' = [id |-> 1, state |-> "initializing"]
            /\ api_lock' = c
            /\ api_pc' = [api_pc EXCEPT ![c].pc = "init"]
    /\ UNCHANGED <<coreVars, closeVars, dbVars, cacheVars, queueVars, lockVars>>

\* _initialize ends: either the client is authorized (ok) and the object is
\* returned, or it raises SheetsAPIError (no credentials file, no network),
\* which leaves the with block and __new__; _instance stays assigned.
Initializes(c, ok) ==
    /\ api_pc[c].pc = "init"
    /\ api_instance' = [api_instance EXCEPT !.state = IF ok THEN "initialized" ELSE "failed"]
    /\ api_lock' = NoThread
    /\ api_pc' = [api_pc EXCEPT ![c] =
                     IF ok THEN received(api_instance')
                     ELSE [NotObtaining EXCEPT !.pc = "raised"]]
    /\ UNCHANGED <<coreVars, closeVars, dbVars, cacheVars, queueVars, lockVars>>

\* The caller is done with what it got (or with the error) and may ask again.
ObtainsAgain(c) ==
    /\ api_pc[c].pc \in {"has", "raised"}
    /\ api_pc' = [api_pc EXCEPT ![c] = NotObtaining]
    /\ UNCHANGED <<coreVars, closeVars, dbVars, cacheVars, queueVars, lockVars, api_instance, api_lock>>

NextApi ==
    \/ \E c \in Threads : NewChecks(c)
    \/ \E c \in Threads : NewLocks(c)
    \/ \E c \in Threads, ok \in BOOLEAN : Initializes(c, ok)
    \/ \E c \in Threads : ObtainsAgain(c)

(***************************************************************************)
(* The window's termination paths and the dialog of closeEvent.            *)
(***************************************************************************)

\* No closeEvent is being handled.  by: the handler whose close() delivered
\* it; answered: when closeEvent called _log_shift_end.
NoClose == [pc |-> "none", by |-> "none", answered |-> NULL]

Asking(by) == [pc |-> "asking", by |-> by, answered |-> NULL]

\* EmployeeApp.finish_shift up to the dialog of closeEvent: _log_shift_end
\* writes the LOGOUT row and calls on_logout_callback, whose close() delivers
\* closeEvent with _closing_reason unset; finish_shift goes on when the dialog
\* is answered.
FinishShiftCloses ==
    /\ app_running
    /\ gui_running
    /\ ~shift_ended
    /\ close_event.pc = "none"
    /\ LET res == log_shift_end(logs, sqlite_seq, remote, senders, now,
                                FALSE, FALSE, FALSE)
       IN  /\ logs' = res.logs
           /\ sqlite_seq' = res.seq
           /\ senders' = res.senders
    /\ close_event' = Asking("finish_shift")
    /\ UNCHANGED <<clockVars, header, serviceVars, rateVars, worklog, dbVars,
                   cacheVars, queueVars, lockVars, apiVars, request,
                   quota_info, pending, online, remote, sessions, app_running,
                   guiVars, signalVars, batchVars, modeVars>>

\* The user closes the window: closeEvent with _closing_reason unset asks.
WindowCloses ==
    /\ app_running
    /\ gui_running
    /\ close_event.pc = "none"
    /\ close_event' = Asking("user")
    /\ UNCHANGED <<logVars, clockVars, header, serviceVars, rateVars, worklog,
                   dbVars, cacheVars, queueVars, lockVars, apiVars, request,
                   quota_info, pending, online, remote, senders, sessions,
                   app_running, guiVars, signalVars, batchVars, modeVars>>

\* The window is gone and quit_application ends the process.
WindowClosed(t) ==
    /\ close_event' = [pc |-> "closed", by |-> close_event.by, answered |-> t]
    /\ AppExits

\* closeEvent, the dialog answered.  yes: _log_shift_end is called once more,
\* the directory is updated (ok) and the event accepted; else the event is
\* ignored and the window stays.  finish_shift, when it was the caller, then
\* sets shift_ended and updates the directory itself.
CloseAnswered(yes, ok) ==
    /\ close_event.pc = "asking"
    /\ ok => online
    /\ LET fs == close_event.by = "finish_shift"
           fin(S) == IF ok
                     THEN finish_active_session(S, header, ClientEmail,
                                                SessionOf(ClientEmail), now)
                     ELSE S
           res == log_shift_end(logs, sqlite_seq, remote, senders, now,
                                FALSE, FALSE, FALSE)
       IN  IF yes
           THEN /\ logs' = res.logs
                /\ sqlite_seq' = res.seq
                /\ senders' = res.senders
                /\ sessions' = IF fs THEN fin(fin(sessions)) ELSE fin(sessions)
                /\ shift_ended' = TRUE
                /\ WindowClosed(now)
                /\ UNCHANGED <<ui_shutdowns, gui_status, emitted>>
           ELSE /\ sessions' = IF fs THEN fin(sessions) ELSE sessions
                /\ shift_ended' = (shift_ended \/ fs)
                /\ close_event' = NoClose
                /\ UNCHANGED <<logVars, senders, app_running, gui_running,
                               ui_shutdowns, gui_status, signalVars,
                               batchVars, modeVars>>
    /\ UNCHANGED <<clockVars, header, serviceVars, rateVars, worklog, dbVars,
                   cacheVars, queueVars, lockVars, apiVars, request,
                   quota_info, pending, online, remote>>

\* After force_logout_by_admin and _auto_check_shift_ended wrote the LOGOUT
\* row: on_logout_callback's close() is accepted for its _closing_reason,
\* which closeEvent resets, and the handler calls close() again.  asks: that
\* second closeEvent reaches the window and asks.
ClosesAgain(by, asks, signals) ==
    IF asks
    THEN /\ close_event' = Asking(by)
         /\ force_logout' = signals
         /\ UNCHANGED <<app_running, gui_running, remote_status, batchVars,
                        modeVars>>
    ELSE WindowClosed(NULL)

\* EmployeeApp.force_logout_by_admin, the slot of the force_logout signal; it
\* runs also while the dialog of closeEvent is open.  ok1, ok2: the two
\* appends of _log_shift_end; okk: the update of the directory.
ForceLogoutCloses(ok1, ok2, okk, asks) ==
    /\ app_running
    /\ gui_running
    /\ force_logout > 0
    /\ close_event.pc \in {"none", "asking"}
    /\ IF shift_ended
       THEN /\ force_logout' = force_logout - 1
            /\ UNCHANGED <<logVars, remote, senders, sessions, app_running,
                           guiVars, emitted, remote_status, batchVars,
                           modeVars, close_event>>
       ELSE LET n == (IF ok1 THEN 1 ELSE 0) + (IF ok2 THEN 1 ELSE 0)
                res == log_shift_end(logs, sqlite_seq, remote, senders, now,
                                     TRUE, ok1, ok2)
            IN  /\ (ok1 \/ ok2) => online /\ CanAppend(n)
                /\ okk => online
                /\ logs' = res.logs
                /\ sqlite_seq' = res.seq
                /\ remote' = res.remote
                /\ senders' = res.senders
                /\ sessions' = IF okk
                               THEN kick_active_session(
                                        sessions, header, ClientEmail,
                                        SessionOf(ClientEmail), "logout_time", now)
                               ELSE sessions
                /\ shift_ended' = TRUE
                /\ ui_shutdowns' = ui_shutdowns + 1
                /\ ClosesAgain("force_logout_by_admin", asks, force_logout - 1)
                /\ UNCHANGED <<gui_status, emitted>>
    /\ UNCHANGED <<clockVars, header, serviceVars, rateVars, worklog, dbVars,
                   cacheVars, queueVars, lockVars, apiVars, request,
                   quota_info, pending, online>>

\* EmployeeApp._auto_check_shift_ended, the 30 s timer of the window; it runs
\* also while the dialog of closeEvent is open.  ok: the read of the
\* directory succeeds.
AutoCheckCloses(ok, asks) ==
    /\ app_running
    /\ gui_running
    /\ ~shift_ended
    /\ close_event.pc \in {"none", "asking"}
    /\ IF check_existing_logout(logs, ClientEmail, SessionOf(ClientEmail))
       THEN /\ shift_ended' = TRUE
            /\ ui_shutdowns' = ui_shutdowns + 1
            /\ UNCHANGED <<logVars, remote, senders, app_running, gui_running,
                           gui_status, signalVars, batchVars, modeVars,
                           close_event>>
       ELSE IF ~(ok /\ online)
       THEN UNCHANGED <<logVars, remote, senders, app_running, guiVars,
                        signalVars, batchVars, modeVars, close_event>>
       ELSE IF ~is_session_finished_remote(sessions, ClientEmail,
                                           SessionOf(ClientEmail))
       THEN /\ gui_status' = check_user_session_status(
                                 sessions, ClientEmail, SessionOf(ClientEmail))
            /\ UNCHANGED <<logVars, remote, senders, app_running,
                           gui_running, shift_ended, ui_shutdowns, signalVars,
                           batchVars, modeVars, close_event>>
       ELSE /\ gui_status' = check_user_session_status(
                                 sessions, ClientEmail, SessionOf(ClientEmail))
            /\ LET res == log_shift_end(logs, sqlite_seq, remote, senders,
                                        now, FALSE, FALSE, FALSE)
               IN  /\ logs' = res.logs
                   /\ sqlite_seq' = res.seq
                   /\ senders' = res.senders
            /\ shift_ended' = TRUE
            /\ ui_shutdowns' = ui_shutdowns + 1
            /\ ClosesAgain("_auto_check_shift_ended", asks, force_logout)
            /\ UNCHANGED <<remote, emitted>>
    /\ UNCHANGED <<clockVars, header, serviceVars, rateVars, worklog, dbVars,
                   cacheVars, queueVars, lockVars, apiVars, request,
                   quota_info, pending, online, sessions>>

\* The session id of an earlier login of the client's user.
EarlierSession == "s0"

\* The registration of the window's session in the directory at login:
\* set_active_session appends its row.
RegisterSession ==
    /\ app_running
    /\ online
    /\ ~\E i \in 1..Len(sessions) :
           /\ sessions[i].email = ClientEmail
           /\ sessions[i].session_id = SessionOf(ClientEmail)
    /\ sessions' = set_active_session(sessions, ClientEmail,
                                      SessionOf(ClientEmail), now)
    /\ UNCHANGED <<logVars, clockVars, auxVars, request, quota_info, pending,
                   online, remote, senders, app_running, guiVars, signalVars,
                   batchVars, modeVars>>

(***************************************************************************)
(* The specifications.                                                     *)
(***************************************************************************)

\* The application just started: an empty log, the engine idle, the login
\* window showing.
InitProcess(L, is_online, size) ==
    /\ logs = L
    /\ sqlite_seq = Len(L)
    /\ now = Len(L)
    /\ ticks = 0
    /\ online = is_online
    /\ remote = <<>>
    /\ senders = EmptyBag
    /\ app_running = TRUE
    /\ gui_running = FALSE
    /\ shift_ended = FALSE
    /\ ui_shutdowns = 0
    /\ gui_status = "none"
    /\ force_logout = 0
    /\ emitted = 0
    /\ remote_status = "none"
    /\ e_pc = "idle"
    /\ batch = <<>>
    /\ grp = 0
    /\ attempt = 0
    /\ synced_ids = {}
    /\ tried = {}
    /\ failed = {}
    /\ is_offline_recovery = FALSE
    /\ sync_interval = SYNC_INTERVAL
    /\ batch_size = size
    /\ cycle = NoCycle
    /\ request = NoRequest
    /\ rate_clock = 0
    /\ last_request_time = NULL
    /\ callers = [c \in Callers |-> NotCalling]
    /\ call_starts = <<>>
    /\ pending = [a \in Actors |-> NoUpdate]
    /\ stop_event = FALSE
    /\ errors = 0
    /\ db_conn = TRUE
    /\ last_ping = Len(L)
    /\ local_db = open(NewDb, LOCAL_DB_PATH, DbPaths)
    /\ usable_paths = DbPaths
    /\ db_opens = 1
    /\ sheet_cache = [n \in SheetNames |-> 0]
    /\ sheets = [n \in SheetNames |-> [id |-> 1, there |-> TRUE]]
    /\ ws_call = NoCall
    /\ api_instance = NoInstance
    /\ api_lock = NoThread
    /\ api_pc = [c \in Threads |-> NotObtaining]
    /\ close_event = NoClose

\* The same, the queue file is empty and no status event is in the window.
InitClient(L, is_online, size) ==
    /\ InitProcess(L, is_online, size)
    /\ InitQueue(<<>>)
    /\ InitLocks(0)

\* The same, with the quota that SheetsAPI.__init__ sets.
InitOther(L, is_online, size) ==
    /\ InitClient(L, is_online, size)
    /\ quota_info = [remaining |-> QUOTA_DEFAULT]
    /\ worklog = NoTarget

\* The same, and nobody has registered a session yet.
InitWith(L, is_online, size) ==
    /\ InitOther(L, is_online, size)
    /\ sessions = <<>>
    /\ header = DefaultHeader

Init == InitWith(<<>>, TRUE, SYNC_BATCH_SIZE)

\* The local log under the calls of any caller.
NextLog ==
    \/ \E d \in TickSteps : Tick(d)
    \/ /\ Len(logs) < MaxRows
       /\ \E e \in Emails, a \in ActionTypes, s \in BOOLEAN : LogAction(e, a, 1, s)
    \/ \E e \in Emails : FinishLastStatus(e)

SpecLog == Init /\ [][NextLog]_vars

\* The appends of any caller to the local log, and the clock.
NextAppend ==
    \/ \E d \in TickSteps : Tick(d)
    \/ /\ Len(logs) < MaxRows
       /\ \E e \in Emails, a \in ActionTypes : LogAction(e, a, 1, FALSE)

SpecAppend == Init /\ [][NextAppend]_vars

\* The engine's cycle.
NextEngine ==
    \/ BeginCycle
    \/ AttemptOffline
    \/ AttemptOk
    \/ AttemptFail
    \/ MarkSynced
    \/ \E ok \in BOOLEAN : CheckRemoteCommands(ok)
    \/ \E b \in BOOLEAN : SetOnline(b)

\* The engine's cycle while the network stays up.
NextRead ==
    \/ BeginCycle
    \/ AttemptOk
    \/ AttemptFail
    \/ MarkSynced
    \/ \E ok \in BOOLEAN : CheckRemoteCommands(ok)

\* The client window, its sender threads and the sync engine on one log.
Next ==
    \/ Login
    \/ Len(logs) < MaxRows /\ SetStatus
    \/ \E i \in 1..MaxRows, ok \in BOOLEAN : SenderWorker(i, ok)
    \/ NextEngine

Spec == Init /\ [][Next]_vars

\* The sync engine on a log that any caller writes, for several users.
NextBatch ==
    \/ /\ Len(logs) < MaxRows
       /\ \E e \in Emails, a \in ActionTypes, p \in PriorityInputs :
             LogAction(e, a, p, FALSE)
    \/ NextEngine

SpecBatch == Init /\ [][NextBatch]_vars

\* The client window, the administrator and the engine's poll of the
\* directory.
NextSession ==
    \/ SetActiveSession
    \/ Login
    \/ Len(logs) < MaxRows /\ SetStatus
    \/ AdminKick
    \/ \E ok \in BOOLEAN : AutoCheckShiftEnded(ok)
    \/ \E ok1, ok2, okk \in BOOLEAN : ForceLogoutByAdmin(ok1, ok2, okk)
    \/ \E ok \in BOOLEAN : FinishShift(ok)
    \/ \E ok \in BOOLEAN : CloseEvent(ok)
    \/ Restart
    \/ NextEngine

SpecSession == Init /\ [][NextSession]_vars

\* Every operation on the log: an append with immediate_sync and a closing by
\* any caller, and the operations of the client window with its sender
\* threads, of the administrator and of the engine, while the network stays
\* up.
NextAll ==
    \/ /\ Len(logs) < MaxRows
       /\ \E a \in ActionTypes : LogAction(ClientEmail, a, 1, TRUE)
    \/ FinishLastStatus(ClientEmail)
    \/ \E i \in 1..MaxRows, ok \in BOOLEAN : SenderWorker(i, ok)
    \/ SetActiveSession
    \/ Login
    \/ Len(logs) < MaxRows /\ SetStatus
    \/ AdminKick
    \/ \E ok \in BOOLEAN : AutoCheckShiftEnded(ok)
    \/ \E ok1, ok2, okk \in BOOLEAN : ForceLogoutByAdmin(ok1, ok2, okk)
    \/ \E ok \in BOOLEAN : FinishShift(ok)
    \/ \E ok \in BOOLEAN : CloseEvent(ok)
    \/ Restart
    \/ NextRead

SpecAll == Init /\ [][NextAll]_vars

\* The rows that logins have registered: active, the session id of each its
\* own (an id is made of the email and the second of the login).
DirectoryRow(email, session_id, t) ==
    [email |-> email, session_id |-> session_id, login_time |-> t,
     status |-> "active", logout_time |-> NULL, remote_command |-> ""]

DirectoryRows ==
    {DirectoryRow(e, sid, t) : e \in Emails, sid \in SessionIds, t \in {0, 1}}

Directories ==
    {S \in UNION {[1..n -> DirectoryRows] : n \in 0..MaxSessionRows} :
        \A i, j \in 1..Len(S) : i # j => S[i].session_id # S[j].session_id}

\* A directory of registered sessions.
InitDirectory ==
    /\ InitOther(<<>>, TRUE, SYNC_BATCH_SIZE)
    /\ sessions \in Directories
    /\ header = DefaultHeader

\* The directory calls of a client and of the admin panel, interleaved, and
\* the clock.
NextDirectory ==
    \/ \E sid \in SessionIds : ClientFinishRead(sid)
    \/ \E e \in Emails : AdminKickRead(e)
    \/ \E a \in Actors, ok \in BOOLEAN : DirectoryUpdate(a, ok)
    \/ \E d \in TickSteps : Tick(d)

SpecDirectory == InitDirectory /\ [][NextDirectory]_vars

\* Every order of the columns of the table.
Headers ==
    {hdr \in [1..Len(DefaultHeader) -> Range(DefaultHeader)] :
        \A i, j \in 1..Len(DefaultHeader) : i # j => hdr[i] # hdr[j]}

\* A directory of sessions of one email, under any order of the columns.
InitRange ==
    /\ InitOther(<<>>, TRUE, SYNC_BATCH_SIZE)
    /\ sessions \in {S \in Directories :
                        \A i \in 1..Len(S) : /\ S[i].email = ClientEmail
                                              /\ S[i].login_time = 1}
    /\ header \in Headers

\* The finish of the client and the kick of the admin panel, each a read of
\* the table and a range update.
NextRange ==
    \/ \E sid \in SessionIds : ClientFinishRead(sid)
    \/ AdminKickRead(ClientEmail)
    \/ \E a \in Actors, ok \in BOOLEAN : DirectoryUpdate(a, ok)

SpecRange == InitRange /\ [][NextRange]_vars

\* One call of the Remote Access Layer, its attempts ending in any way.
NextRequest ==
    \/ RequestStart
    \/ \E result \in CallResults, fresh \in QuotaAnswers, jitter \in Jitters :
           RequestAttempt(result, fresh, jitter)

\* The layer starts with the quota that the service reported at the start.
InitRequest ==
    /\ InitClient(<<>>, TRUE, SYNC_BATCH_SIZE)
    /\ sessions = <<>>
    /\ header = DefaultHeader
    /\ \E n \in 0..MaxQuota : quota_info = [remaining |-> n]
    /\ worklog = NoTarget

SpecRequest == InitRequest /\ [][NextRequest]_vars

SpecRate == Init /\ [][NextRate]_vars

SpecTarget == Init /\ [][NextTarget]_vars

\* A log of n rows of one session, none of them synced: the LOGIN row and the
\* status changes after it, one a minute, each closed by the next.
Backlog(n) ==
    [i \in 1..n |->
        [id |-> i, email |-> ClientEmail, session_id |-> SessionOf(ClientEmail),
         action_type |-> IF i = 1 THEN "LOGIN" ELSE "STATUS_CHANGE",
         priority |-> 1, timestamp |-> i,
         status_end_time |-> IF i < n THEN i + 1 ELSE NULL,
         synced |-> 0, sync_attempts |-> 0]]

\* The engine starts on a backlog, with the batch size as it is shipped or
\* with one set above the recovery threshold.
InitMode ==
    \E n \in BacklogSizes, size \in BatchSizes : InitWith(Backlog(n), TRUE, size)

SpecMode == InitMode /\ [][NextEngine]_vars

\* How far the clock moves in one step of the service: a minute, or the
\* watchdog's timeout.
ServiceTicks == {1, PING_TIMEOUT}

\* The engine is started on a log of one session, with or without
\* connectivity, and the batch size as it is shipped.
InitService ==
    \E n \in 0..MaxRows, b \in BOOLEAN :
        InitWith(Backlog(n), b, SYNC_BATCH_SIZE)

\* A step of the engine's thread inside run_service.
EngineStep ==
    \/ AttemptOffline
    \/ AttemptOk
    \/ AttemptFail
    \/ MarkSynced
    \/ \E ok \in BOOLEAN : CheckRemoteCommands(ok)
    \/ LoopExit

\* run_service with everything that goes on around it: connectivity comes
\* and goes, time passes, pings arrive, stop is called, a call raises.
NextService ==
    \/ BeginCycle
    \/ EngineStep
    \/ CycleRaises
    \/ Stop
    \/ Ping
    \/ \E b \in BOOLEAN : SetOnline(b)
    \/ \E d \in ServiceTicks : Tick(d)

SpecService == InitService /\ [][NextService]_vars

\* The engine's thread is scheduled: a step of the cycle that can be taken,
\* or the return from run_service, is taken.
SpecWatchdog == SpecService /\ WF_vars(EngineStep)

\* The local log is constructed, closed and opened again while the paths
\* come and go.
SpecOpen == Init /\ [][NextOpen]_vars

\* The layer is called on tables that are deleted and created again upstream.
SpecHandles == Init /\ [][NextHandles]_vars

\* What the queue file may hold at the start: nothing, an entry older than
\* QUEUE_DAYS, a new one, or both.
QueueFiles ==
    LET old == [id |-> 1, retry_count |-> 0, timestamp |-> 0 - (QUEUE_DAYS + 1) * DAY]
        new == [id |-> 2, retry_count |-> 0, timestamp |-> 0]
    IN  {<<>>, <<old>>, <<new>>, <<old, new>>}

InitQueues ==
    \E Q \in QueueFiles :
        /\ InitProcess(<<>>, TRUE, SYNC_BATCH_SIZE)
        /\ InitQueue(Q)
        /\ InitLocks(0)
        /\ quota_info = [remaining |-> QUOTA_DEFAULT]
        /\ worklog = NoTarget
        /\ sessions = <<>>
        /\ header = DefaultHeader

\* The threads of the process call the queue; every thread is scheduled,
\* and a thread that waits for a lock gets it if the lock is free again and
\* again.
SpecQueue ==
    /\ InitQueues
    /\ [][NextQueue]_vars
    /\ \A c \in Callers : /\ SF_vars(QueueLock(c))
                          /\ WF_vars(QueueBody(c))
                          /\ SF_vars(QueueSave(c))

\* The threads of the client between the local log and the network.
SpecLocks == Init /\ [][NextLocks]_vars
\* The window with the dialog of closeEvent, the administrator, the engine
\* online with its poll of the directory, and the clock in days.
NextLogout ==
    \/ SetActiveSession
    \/ Login
    \/ Len(logs) < MaxRows /\ SetStatus
    \/ AdminKick
    \/ FinishShiftCloses
    \/ WindowCloses
    \/ \E yes, ok \in BOOLEAN : CloseAnswered(yes, ok)
    \/ \E ok1, ok2, okk, asks \in BOOLEAN : ForceLogoutCloses(ok1, ok2, okk, asks)
    \/ \E ok, asks \in BOOLEAN : AutoCheckCloses(ok, asks)
    \/ Tick(DAY)
    \/ BeginCycle
    \/ AttemptOk
    \/ AttemptFail
    \/ MarkSynced
    \/ \E ok \in BOOLEAN : CheckRemoteCommands(ok)

SpecLogout == Init /\ [][NextLogout]_vars

\* The directory holds nothing, or the row of an earlier session of the user
\* that was never finished.
InitKick ==
    /\ InitOther(<<>>, TRUE, SYNC_BATCH_SIZE)
    /\ sessions \in {<<>>, <<DirectoryRow(ClientEmail, EarlierSession, 0)>>}
    /\ header = DefaultHeader

\* The window, the registration of its session, the administrator and the
\* engine online with its poll of the directory.
NextKick ==
    \/ RegisterSession
    \/ Login
    \/ Len(logs) < MaxRows /\ SetStatus
    \/ AdminKick
    \/ \E ok \in BOOLEAN : AutoCheckShiftEnded(ok)
    \/ \E ok1, ok2, okk \in BOOLEAN : ForceLogoutByAdmin(ok1, ok2, okk)
    \/ \E ok \in BOOLEAN : FinishShift(ok)
    \/ \E ok \in BOOLEAN : CloseEvent(ok)
    \/ BeginCycle
    \/ AttemptOk
    \/ AttemptFail
    \/ MarkSynced
    \/ \E ok \in BOOLEAN : CheckRemoteCommands(ok)

SpecKick == InitKick /\ [][NextKick]_vars


\* The threads of the process obtain the client of the Remote Access Layer.
SpecApi == Init /\ [][NextApi]_vars

\* The limits of the batch read, and what the fields of a row may hold.
ReadLimits == {1, 2}
ReadPriorities == {MIN_PRIORITY, MAX_PRIORITY}
ReadTimes == {0, 1}
ReadFields == ReadPriorities \X ReadTimes \X {0, 1}

\* A log of the rows whose priority, timestamp and synced flag f gives.
ReadLog(f) ==
    [i \in 1..Len(f) |->
        [id |-> i, email |-> ClientEmail, session_id |-> SessionOf(ClientEmail),
         action_type |-> "STATUS_CHANGE",
         priority |-> f[i][1], timestamp |-> f[i][2],
         status_end_time |-> f[i][2],
         synced |-> f[i][3], sync_attempts |-> f[i][3]]]

\* The engine starts on any log of up to MaxReadRows rows, of any priorities
\* and timestamps, synced or not, with a small batch size.
InitRead ==
    \E n \in 0..MaxReadRows : \E f \in [1..n -> ReadFields] :
        \E size \in ReadLimits : InitWith(ReadLog(f), TRUE, size)

SpecRead == InitRead /\ [][NextRead]_vars

\* How far the clock moves in one step between two starts: a minute, or the
\* whole horizon of the history.
SweepTicks == {1, MAX_HISTORY_DAYS * DAY}

\* The client is started over and over on a log of any rows, synced or not,
\* while time passes and events are logged.
NextSweep ==
    \/ \E d \in SweepTicks : Tick(d)
    \/ /\ Len(logs) < MaxReadRows
       /\ \E a \in ActionTypes : LogAction(ClientEmail, a, 1, FALSE)
    \/ Restart

SpecSweep == InitRead /\ [][NextSweep]_vars

\* QueueLen events are logged while there is no connectivity, the last
\* QueueTail of them while the engine is seen running; then connectivity comes
\* back, stays, and every append succeeds.  The batch size is the shipped one
\* or one above the recovery threshold.
InitDrain ==
    \E size \in BatchSizes : InitWith(Backlog(QueueLen - QueueTail), FALSE, size)

QueueEvent ==
    /\ ~online
    /\ Len(logs) < QueueLen
    /\ LogAction(ClientEmail, "STATUS_CHANGE", 1, FALSE)

Reconnect ==
    /\ Len(logs) = QueueLen
    /\ SetOnline(TRUE)

NextDrain ==
    \/ QueueEvent
    \/ Reconnect
    \/ BeginCycle
    \/ AttemptOffline
    \/ AttemptOk
    \/ MarkSynced
    \/ \E ok \in BOOLEAN : CheckRemoteCommands(ok)

\* A step of BeginCycle, by its guard and what it does to the engine's
\* position.
CycleBegins ==
    /\ app_running
    /\ e_pc = "idle"
    /\ e_pc' \in {"attempt", "check"}

\* A step of CheckRemoteCommands, in the same way.
CycleEnds ==
    /\ app_running
    /\ e_pc = "check"
    /\ emitted < MaxEmits
    /\ e_pc' = "idle"

\* The engine's thread is scheduled: every step of a cycle that can be taken
\* is taken (the sleeps between cycles and between attempts are bounded).
SpecDrain ==
    /\ InitDrain
    /\ [][NextDrain]_vars
    /\ WF_e_pc(CycleBegins)
    /\ WF_vars(AttemptOffline)
    /\ WF_vars(AttemptOk)
    /\ WF_vars(MarkSynced)
    /\ WF_e_pc(CycleEnds)

\* The emails whose remote append keeps failing (the table of the user's
\* group cannot be written): log_user_actions answers False for their groups
\* at every attempt, and True for every other group.
FailingEmails == {"a"}

\* A log of n pending rows of email "a" and, written after them, one pending
\* row of email "b".
StarveLog(n) ==
    [i \in 1..(n + 1) |->
        [id |-> i, email |-> IF i <= n THEN "a" ELSE "b",
         session_id |-> SessionOf(IF i <= n THEN "a" ELSE "b"),
         action_type |-> "STATUS_CHANGE", priority |-> 1, timestamp |-> i,
         status_end_time |-> NULL, synced |-> 0, sync_attempts |-> 0]]

\* The engine starts online on such a log: the failing rows fill the batch
\* but for one place, or fill it.
InitStarve ==
    \E n \in {SYNC_BATCH_SIZE - 1, SYNC_BATCH_SIZE} :
        InitWith(StarveLog(n), TRUE, SYNC_BATCH_SIZE)

\* An attempt of a group whose append succeeds, and one of a group whose
\* append fails.
AttemptGroupOk == AttemptOk /\ batch[grp].email \notin FailingEmails
AttemptGroupFails == AttemptFail /\ batch[grp].email \in FailingEmails

\* Another user's event is written while the engine runs.
StarveEvent ==
    /\ Len(logs) < SYNC_BATCH_SIZE + 2
    /\ LogAction("b", "STATUS_CHANGE", 1, FALSE)

NextStarve ==
    \/ StarveEvent
    \/ BeginCycle
    \/ AttemptGroupOk
    \/ AttemptGroupFails
    \/ MarkSynced
    \/ \E ok \in BOOLEAN : CheckRemoteCommands(ok)
    \/ Tick(1)

\* The network stays up and the engine's thread is scheduled: every step of
\* a cycle that can be taken is taken.
SpecStarve ==
    /\ InitStarve
    /\ [][NextStarve]_vars
    /\ WF_e_pc(CycleBegins)
    /\ WF_vars(AttemptGroupOk)
    /\ WF_vars(AttemptGroupFails)
    /\ WF_vars(MarkSynced)
    /\ WF_e_pc(CycleEnds)

(***************************************************************************)
(* The claims.                                                             *)
(***************************************************************************)

\* C1: whatever appends and closings were made on a session, at most one of
\* its LOGIN or STATUS_CHANGE rows has no status_end_time.
C1_AtMostOneOpenRow ==
    \A e \in Emails : Cardinality(OpenRows(logs, e, SessionOf(e))) <= 1

\* C2: a row whose synced flag is 1 has been appended to the remote store.
C2_SyncedOnlyAfterAppend ==
    \A r \in Range(logs) : r.synced = 1 => r.id \in Range(remote)

RowOf(id) == CHOOSE r \in Range(logs) : r.id = id

\* C3: the rows of one session reach the remote store in non-decreasing order
\* of insertion (of id).
C3_SessionInsertionOrder ==
    \A i, j \in 1..Len(remote) :
        (/\ i < j
         /\ RowOf(remote[i]).email = RowOf(remote[j]).email
         /\ RowOf(remote[i]).session_id = RowOf(remote[j]).session_id)
        => remote[i] <= remote[j]

\* C4: the engine emits force_logout once for the remote termination of the
\* session; later polls that find the same status do not emit it again.
C4_EmitsOnce == emitted <= 1

NonActive == {"kicked", "finished", "unknown"}
Terminated == {"kicked", "finished"}

\* C5 as stated: a poll that answers kicked, finished or unknown triggers the
\* shutdown (the engine emits force_logout, the window shuts down), once.
C5_NonActiveShutsDown ==
    /\ remote_status \in NonActive => emitted >= 1
    /\ gui_status \in NonActive => shift_ended /\ ui_shutdowns = 1
    /\ ui_shutdowns <= 1

\* C5, amended: a poll that answers kicked or finished triggers the shutdown
\* (the engine emits force_logout, the window shuts down), and the window is
\* shut down once only; unknown triggers nothing.
C5_TerminatedShutsDownOnce ==
    /\ remote_status \in Terminated => emitted >= 1
    /\ gui_status \in Terminated => shift_ended /\ ui_shutdowns = 1
    /\ ui_shutdowns <= 1

\* The window's poll found the session kicked and shut the window down.
C5_KickedShutDown ==
    /\ gui_status = "kicked"
    /\ shift_ended
    /\ ui_shutdowns = 1

\* C6: after a cycle that began with connectivity and a backlog above the
\* recovery threshold, the mode is OfflineRecovery and the interval 300 s.
C6_RecoveryEntered ==
    (/\ e_pc = "check"
     /\ cycle.active
     /\ cycle.online
     /\ cycle.backlog > RECOVERY_THRESHOLD)
    => /\ is_offline_recovery
       /\ sync_interval = SYNC_INTERVAL_OFFLINE_RECOVERY

C8_BacklogDrains ==
    (Len(logs) = QueueLen /\ online)
    ~> (get_unsynced_count(logs) = 0 /\ ~is_offline_recovery)

\* All the queued events are in the remote store and marked synced.
C8_Drained ==
    /\ Len(logs) = QueueLen
    /\ online
    /\ Len(remote) = QueueLen
    /\ get_unsynced_count(logs) = 0
    /\ ~is_offline_recovery

\* C9: when the loop over the groups of a batch is through, every group has
\* had its attempts, whichever groups failed, and the rows of the failed
\* groups are not among the ids to mark and still have synced = 0.
C9_FailureAbortsOnlyItsGroup ==
    e_pc = "mark" =>
        /\ tried = 1..Len(batch)
        /\ \A g \in failed : \A id \in Range(batch[g].ids) :
               /\ id \notin synced_ids
               /\ RowOf(id).synced = 0

\* The first group of a batch failed for good, the second was confirmed.
C9_OneFailedOneConfirmed ==
    /\ e_pc = "mark"
    /\ 1 \in failed
    /\ 2 \in tried \ failed
    /\ synced_ids = Range(batch[2].ids)

\* C10: when _sync_batch ends, the rows of every confirmed group are marked
\* synced.
C10_ConfirmedGroupsMarked ==
    [][(e_pc \in {"attempt", "mark"} /\ e_pc' = "check")
       => \A id \in synced_ids :
              \E i \in 1..Len(logs') : logs'[i].id = id /\ logs'[i].synced = 1]_vars

\* The session has a LOGOUT row written less than LOGOUT_WINDOW minutes ago.
RecentLogout(session_id) ==
    \E r \in Range(logs) : /\ r.session_id = session_id
                           /\ r.action_type = "LOGOUT"
                           /\ r.timestamp > now - LOGOUT_WINDOW

\* C11: a LOGOUT appended for a session that has a LOGOUT within the window
\* changes nothing in the log, and log_action returns (the id -1) instead of
\* raising.
C11_DuplicateLogoutNoOp ==
    \A e \in Emails, s \in BOOLEAN :
        RecentLogout(SessionOf(e)) =>
            LET res == log_action(logs, sqlite_seq, now, e, "LOGOUT", 1,
                                  SessionOf(e), now, s)
            IN  /\ res.logs = logs
                /\ res.seq = sqlite_seq
                /\ res.id = DUPLICATE_LOGOUT

\* A session has a LOGOUT row, written earlier and still within the window,
\* and the log takes more rows.
C11_LogoutInWindow ==
    /\ Len(logs) < MaxRows
    /\ \E e \in Emails :
           /\ RecentLogout(SessionOf(e))
           /\ \E r \in Range(logs) : /\ r.session_id = SessionOf(e)
                                      /\ r.action_type = "LOGOUT"
                                      /\ r.timestamp < now

\* C12: the batch read returns rows of the log with synced = 0, at most limit
\* of them, no row twice, a higher priority before a lower one and, within a
\* priority, an older timestamp before a newer one.
C12_BatchRead ==
    \A limit \in ReadLimits :
        LET b == get_unsynced_actions(logs, limit)
        IN  /\ Len(b) <= limit
            /\ \A i \in 1..Len(b) : b[i] \in Range(logs) /\ b[i].synced = 0
            /\ \A i, j \in 1..Len(b) : i # j => b[i].id # b[j].id
            /\ \A i, j \in 1..Len(b) :
                   i < j => \/ b[i].priority > b[j].priority
                            \/ /\ b[i].priority = b[j].priority
                               /\ b[i].timestamp <= b[j].timestamp

\* The log holds a synced row and two unsynced rows; the read with limit 1
\* leaves one of them out, and it is the row of the smaller id: the other one
\* is older, or of a higher priority.
C12_ReorderedBatch ==
    /\ \E r \in Range(logs) : r.synced = 1
    /\ get_unsynced_count(logs) = 2
    /\ Len(get_unsynced_actions(logs, 1)) = 1
    /\ LET b == get_unsynced_actions(logs, 2)
       IN  /\ Len(b) = 2
           /\ b[1].id > b[2].id

\* The sets of ids that mark_actions_synced is called with: ids of rows of
\* the log, marked or not, and an id that no row has.
MarkedIds == SUBSET (1..(Len(logs) + 1))

\* C13: mark_actions_synced called twice with the same ids leaves every row of
\* ids with synced = 1 and with sync_attempts one higher per call, changes
\* nothing else in these rows and no other row; so it does for ids that are
\* marked already.
C13_MarkSyncedTwice ==
    \A ids \in MarkedIds :
        LET once == mark_actions_synced(logs, ids)
            twice == mark_actions_synced(once, ids)
        IN  /\ Len(once) = Len(logs)
            /\ Len(twice) = Len(logs)
            /\ \A i \in 1..Len(logs) :
                   IF logs[i].id \in ids
                   THEN /\ once[i] = [logs[i] EXCEPT
                                         !.synced = 1,
                                         !.sync_attempts = logs[i].sync_attempts + 1]
                        /\ twice[i] = [logs[i] EXCEPT
                                          !.synced = 1,
                                          !.sync_attempts = logs[i].sync_attempts + 2]
                   ELSE once[i] = logs[i] /\ twice[i] = logs[i]

\* The engine has appended and marked a row; the log holds it, a row that was
\* marked before, and a row not marked yet.
C13_MarkedAndUnmarked ==
    /\ remote # <<>>
    /\ \E r \in Range(logs) : r.synced = 1 /\ r.id \in Range(remote)
    /\ \E r \in Range(logs) : r.synced = 1 /\ r.id \notin Range(remote)
    /\ \E r \in Range(logs) : r.synced = 0

\* C14: no step sets the synced flag of a row back from 1 to 0.
C14_SyncedMonotonic ==
    [][\A i \in 1..Len(logs) :
          logs[i].synced = 1 =>
              \E j \in 1..Len(logs') : /\ logs'[j].id = logs[i].id
                                        /\ logs'[j].synced = 1]_vars

\* A row that was written open has been closed and has been marked synced
\* twice, and is marked.
C14_SyncedRowClosed ==
    \E r \in Range(logs) : /\ r.synced = 1
                           /\ r.sync_attempts >= 2
                           /\ r.action_type \in {"LOGIN", "STATUS_CHANGE"}
                           /\ r.status_end_time # NULL

C16_TerminalNotRetryable ==
    (request.pc = "raised" /\ request.outcomes = <<"terminal">>)
        => /\ request.calls = 1
           /\ request.waits = <<>>
           /\ request.typed
           /\ ~request.is_retryable

C18_TerminalStatesStay ==
    [][\A i \in 1..Len(sessions) :
          sessions[i].status \in {"finished", "kicked"} =>
              /\ sessions'[i].status = sessions[i].status
              /\ sessions'[i].logout_time = sessions[i].logout_time]_vars

\* What C19 says of kick(email, session_id) on the directory S at time t: of
\* the active rows of the email (of the session, when one is given) one with
\* the latest login time gets Status, LogoutTime and RemoteCommand, and nothing
\* else changes; with no such row nothing changes and the call reports failure.
KickAsSpecified(S, email, session_id, t) ==
    LET candidates == {i \in 1..Len(S) :
                          /\ S[i].email = email
                          /\ S[i].status = "active"
                          /\ session_id # NoSession => S[i].session_id = session_id}
        after == kick_active_session(S, header, email, session_id, "kicked", t)
        row == kick_row(S, email, session_id)
    IN  IF candidates = {}
        THEN after = S /\ row = 0
        ELSE /\ row \in candidates
             /\ \A j \in candidates : S[j].login_time <= S[row].login_time
             /\ after = [S EXCEPT ![row] = [email |-> S[row].email,
                                           session_id |-> S[row].session_id,
                                           login_time |-> S[row].login_time,
                                           status |-> "kicked",
                                           logout_time |-> t,
                                           remote_command |-> "FORCE_LOGOUT"]]

StatusAsSpecified(S, email, session_id) ==
    LET exact == {i \in 1..Len(S) : S[i].email = email /\ S[i].session_id = session_id}
        same == {i \in 1..Len(S) : S[i].email = email}
        answer == check_user_session_status(S, email, session_id)
    IN  IF exact # {}
        THEN \E i \in exact : answer = S[i].status
        ELSE IF same # {}
        THEN \E i \in same : /\ \A j \in same : S[j].login_time <= S[i].login_time
                             /\ answer = S[i].status
        ELSE answer = "unknown"

\* C20: the status asked for an email and session is that of the row of that
\* email and session when there is one, so it is kicked right after a kick of
\* that session; else it is that of the row of the email with the most recent
\* login time, and unknown when the email has no row.
C20_StatusOf ==
    \A email \in Emails, session_id \in SessionIds :
        /\ StatusAsSpecified(sessions, email, session_id)
        /\ \A target \in {session_id, NoSession} :
               LET row == kick_row(sessions, email, target)
                   after == kick_active_session(sessions, header, email, target,
                                                "kicked", now)
               IN  (row # 0 /\ sessions[row].session_id = session_id)
                       => check_user_session_status(after, email, session_id) = "kicked"

\* The client's session has been kicked by the admin panel and its row is not
\* the latest of its email; the email's other session is active.
C20_KickedNotLatest ==
    /\ Len(sessions) = 2
    /\ \A i \in 1..2 : sessions[i].email = ClientEmail
    /\ sessions[1].status = "kicked"
    /\ sessions[2].status = "active"
    /\ check_user_session_status(sessions, ClientEmail, sessions[1].session_id) = "kicked"
    /\ check_user_session_status(sessions, "b", sessions[1].session_id) = "unknown"

\* C21: whatever the order of the columns, a finish or a kick changes cells
\* of one row only, and of that row only Status and LogoutTime, and
\* RemoteCommand when it is a kick.
C21_RangeUpdateFrame ==
    [][/\ Len(sessions') = Len(sessions)
       /\ \A i, j \in 1..Len(sessions) :
              (sessions'[i] # sessions[i] /\ sessions'[j] # sessions[j]) => i = j
       /\ \A i \in 1..Len(sessions) :
              /\ sessions'[i].email = sessions[i].email
              /\ sessions'[i].session_id = sessions[i].session_id
              /\ sessions'[i].login_time = sessions[i].login_time
              /\ sessions'[i].remote_command # sessions[i].remote_command
                     => sessions'[i].status = "kicked"]_vars

\* C22: once stop has been called, whenever and however often, no further
\* cycle begins, the loop returns at its next sleep boundary, and the
\* engine's connection to the local log is closed and stays closed.
C22_StopIsFinal ==
    [][stop_event' =>
          /\ ~db_conn'
          /\ ~(e_pc = "idle" /\ e_pc' \in {"attempt", "check"})
          /\ (e_pc = "idle" /\ stop_event /\ e_pc' # e_pc) => e_pc' = "exited"]_vars

\* C23: when no ping has been received for longer than PING_TIMEOUT the loop
\* begins no further cycle and returns; and the loop returns without a stop
\* only when the last ping is older than PING_TIMEOUT.
C23_Watchdog ==
    /\ [][(e_pc = "idle" /\ e_pc' \in {"attempt", "check"})
              => now - last_ping <= PING_TIMEOUT]_vars
    /\ [][(e_pc # "exited" /\ e_pc' = "exited" /\ ~stop_event)
              => now - last_ping > PING_TIMEOUT]_vars
    /\ (now - last_ping > PING_TIMEOUT)
           ~> (e_pc = "exited" \/ now - last_ping <= PING_TIMEOUT)

\* The watchdog has ended the loop: no stop, and the last ping is older than
\* the timeout.
C23_WatchdogExit ==
    /\ e_pc = "exited"
    /\ ~stop_event
    /\ now - last_ping > PING_TIMEOUT

\* C24: a cycle that raises does not end the loop: a step that logs the
\* exception leaves the loop asleep, from where the next cycle begins unless
\* the loop is stopped or the watchdog has run out; and the loop returns only
\* after a stop or when the watchdog has run out.
C24_ErrorKeepsLoop ==
    /\ [][errors' # errors => e_pc' = "idle"]_vars
    /\ [][(e_pc # "exited" /\ e_pc' = "exited")
              => (e_pc = "idle" /\ (stop_event \/ now - last_ping > PING_TIMEOUT))]_vars
    /\ []((e_pc = "idle" /\ ~stop_event /\ now - last_ping <= PING_TIMEOUT)
              => ENABLED BeginCycle)

\* A cycle has raised, and a later cycle is sending its batch.
C24_NextCycleRuns ==
    /\ errors > 0
    /\ e_pc = "attempt"
    /\ ~stop_event

\* C25: in a cycle whose probe found no connectivity the interval is the
\* short probe interval, nothing is appended to the remote tables and the
\* directory is not read.
C25_OfflineCycleIsLocal ==
    /\ []((cycle.active /\ ~cycle.online)
              => sync_interval = OFFLINE_PROBE_INTERVAL)
    /\ [][(cycle.active /\ ~cycle.online)
              => (remote' = remote /\ remote_status' = remote_status)]_vars

\* C26: a row leaves the local log only when it is older than the horizon, so
\* no unsynced row younger than the horizon is ever removed; and a sweep that
\* removes rows leaves no row older than the horizon, synced or not.
C26_SweepByAgeOnly ==
    [][/\ \A r \in Range(logs) :
              (\A q \in Range(logs') : q.id # r.id)
                  => r.timestamp < now - MAX_HISTORY_DAYS * DAY
       /\ Len(logs') < Len(logs)
              => \A q \in Range(logs') :
                     q.timestamp >= now - MAX_HISTORY_DAYS * DAY]_vars

\* The sweep has removed rows from a log of which an unsynced row, younger
\* than the horizon, is left.
C26_YoungUnsyncedKept ==
    /\ Len(logs) < sqlite_seq
    /\ now > MAX_HISTORY_DAYS * DAY
    /\ \E r \in Range(logs) : /\ r.synced = 0
                               /\ r.timestamp >= now - MAX_HISTORY_DAYS * DAY

\* C27: in every attempt of a request the quota gate compares the remaining
\* quota first; when it is enough the call is made without a refresh; when
\* it is not, the quota is refreshed once and compared once more, and when
\* it is still not enough the call is not made in that attempt and the
\* attempt counts as a retryable failure: the request goes on to its next
\* attempt, or after the last one raises an error with retryable = true.
C27_QuotaGate ==
    /\ Len(request.gates) = Len(request.outcomes)
    /\ request.calls = Cardinality({i \in 1..Len(request.outcomes) :
                                       request.outcomes[i] # "quota"})
    /\ \A i \in 1..Len(request.gates) :
           LET first == request.gates[i][1]
               second == request.gates[i][2]
           IN  /\ first >= 1 => (second = NULL /\ request.outcomes[i] # "quota")
               /\ first < 1 => second # NULL
               /\ request.outcomes[i] = "quota" <=> (first < 1 /\ second < 1)
               /\ request.outcomes[i] = "quota" =>
                      IF i < API_MAX_RETRIES
                      THEN i < Len(request.outcomes) \/ request.pc = "running"
                      ELSE /\ request.pc = "raised"
                           /\ request.typed
                           /\ request.is_retryable

\* The gate stopped the first attempt after its refresh, let the second
\* through after a refresh that found quota, and the call returned.
C27_StoppedThenPassed ==
    /\ request.pc = "returned"
    /\ request.outcomes = <<"quota", "ok">>
    /\ request.gates = <<<<0, 0>>, <<0, 1>>>>
    /\ request.calls = 1

\* C28: any two remote calls that start one after the other, whichever
\* threads make them, start at least API_DELAY_SECONDS apart.
C28_CallsSpaced ==
    \A i \in 1..(Len(call_starts) - 1) :
        call_starts[i + 1] - call_starts[i] >= API_DELAY_SECONDS

\* C29: the rows of a batch go to the WorkLog table of its group, and the
\* group is the one passed with the batch; when none is passed, the Group of
\* the email in Users; when there is none, the group of the first key of the
\* mapping that the prefix of the email holds; when there is none, the
\* default group.
C29_GroupResolution ==
    worklog.done =>
        LET explicit == strip(worklog.user_group)
            listed == IF worklog.users.answer = "row"
                      THEN strip(worklog.users.group) ELSE NoGroup
            first == IF "call" \in worklog.keys THEN "incoming"
                     ELSE IF "appointment" \in worklog.keys THEN "booking"
                     ELSE IF "mail" \in worklog.keys THEN "mail"
                     ELSE IF "dental" \in worklog.keys THEN "dental"
                     ELSE IF "default" \in worklog.keys THEN "incoming"
                     ELSE ""
            expected == IF explicit # NoGroup THEN explicit
                        ELSE IF listed # NoGroup THEN listed
                        ELSE IF first # "" THEN GroupName(first, "title")
                        ELSE DEFAULT_GROUP
        IN  /\ worklog.group = expected
            /\ expected \in worklog.tables => (worklog.ok /\ worklog.sheet = expected)

\* No group is passed, Users holds one and the prefix of the email holds a
\* key of another: the rows went to the table of the group in Users.
C29_UsersBeforePrefix ==
    /\ worklog.done
    /\ worklog.user_group = BlankGroup
    /\ worklog.users = UserLookup("row", GroupName("mail", "title"))
    /\ worklog.keys = {"default"}
    /\ worklog.ok
    /\ worklog.sheet = GroupName("mail", "title")

\* C30: when the table of the resolved group does not exist, the rows are
\* appended to the table of the default group and the call succeeds.
C30_MissingTableFallsBack ==
    (/\ worklog.done
     /\ worklog.group \notin worklog.tables
     /\ DEFAULT_GROUP \in worklog.tables)
        => (worklog.ok /\ worklog.sheet = DEFAULT_GROUP)

\* C31: a construction or a re-opening of the local log tries its primary
\* path (LOCAL_DB_PATH at construction, the path last opened at a
\* re-opening), then the home fallback, then the in-memory mode, in that
\* order, and ends with a connection that is usable: the first of the three
\* that can be opened, whichever of the paths are unusable.
C31_OpenFallsBack ==
    [][db_opens' > db_opens =>
        LET db == local_db'
            base == IF db.call = "init" THEN LOCAL_DB_PATH ELSE reopen_base(local_db)
            order == <<base, home_fallback, MEMORY>>
            good == usable_paths \cup {MEMORY}
            rank == CHOOSE i \in 1..3 : order[i] \in good /\ \A j \in 1..(i - 1) : order[j] \notin good
        IN  /\ db.conn # NoPath
            /\ db.conn = order[rank]
            /\ db.opens[1] = base
            /\ db.opens[Len(db.opens)] = db.conn
            /\ \A i \in 1..(Len(db.opens) - 1) :
                  /\ db.opens[i] \notin good
                  /\ \E k \in 1..rank : db.opens[i] = order[k]
                  /\ db.opens[i] = home_fallback => db.opens[i + 1] # base \/ base = home_fallback
       ]_vars

\* C31 (witness): the log was running on the fallback, was closed, and the
\* re-opening found neither path usable and ended in the in-memory mode.
C31_ReopenedInMemory ==
    /\ db_opens >= 2
    /\ local_db.call = "reopen"
    /\ local_db.conn = MEMORY
    /\ local_db.opens[1] = home_fallback

\* C32: when LOGIN or LOGOUT rows and STATUS_CHANGE rows written by the
\* client are both pending, the LOGIN and LOGOUT rows have the higher
\* priority and the batch read returns them before the STATUS_CHANGE rows.
C32_SessionEventsFirst ==
    LET read == get_unsynced_actions(logs, Len(logs))
    IN  \A i, j \in 1..Len(read) :
            (/\ read[i].action_type \in {"LOGIN", "LOGOUT"}
             /\ read[j].action_type = "STATUS_CHANGE")
                => (read[i].priority > read[j].priority /\ i < j)

\* C33: a table handle is cached by name (a call on a cached name resolves
\* nothing), and a call that finds its cached handle stale drops it and is
\* made once more with a freshly resolved handle: when the table is there
\* again and can be resolved, the call succeeds and the cache holds the new
\* handle; when it is not, the stale handle is no longer cached.
C33_StaleHandleRefreshed ==
    [][(ws_call'.n > ws_call.n /\ ws_call'.stale) =>
          LET name == ws_call'.name
          IN  /\ sheet_cache'[name] # sheet_cache[name]
              /\ sheets[name].there =>
                    (sheet_cache'[name] = sheets[name].id => ws_call'.ok)
      ]_vars

\* C34: every call of a queue operation that persists the queue
\* (add_actions, mark_as_attempted, clear_processed, retry_failed_actions,
\* clean_old_entries) returns: a thread that is in such a call is eventually
\* out of it again.
C34_QueueCallsReturn ==
    \A c \in Callers :
        (queue_pc[c].op \in QueueOps) ~> (queue_pc[c].pc = "idle")

C36_OneInitializedClient ==
    \A c, d \in Threads :
        (api_pc[c].pc = "has" /\ api_pc[d].pc = "has") =>
            /\ api_pc[c].id = api_pc[d].id
            /\ api_pc[c].state = "initialized"

\* C37: rows whose remote append keeps failing do not starve the rest of the
\* backlog: the pending rows whose append succeeds are eventually attempted
\* and marked synced, even when the failing rows are the oldest pending rows
\* and fill the batch.
C37_NoStarvation ==
    (\E r \in Range(logs) : r.email \notin FailingEmails /\ r.synced = 0)
    ~> (\A r \in Range(logs) : r.email \notin FailingEmails => r.synced = 1)

\* C38: the local log holds at most one LOGOUT row per session, whichever of
\* the termination paths fire (the user finishes the shift, the window is
\* closed, the force_logout signal of an admin kick, the window's own check
\* of the directory) and in whatever order.
C38_OneLogoutPerSession ==
    \A s \in SessionIds :
        Cardinality({i \in 1..Len(logs) :
                        logs[i].action_type = "LOGOUT" /\ logs[i].session_id = s}) <= 1

\* The window closed by closeEvent, whose _log_shift_end ran when the LOGOUT
\* row of an earlier termination path was too old for the trigger, and the
\* session has the one row.
C38_SecondPathSkipped ==
    /\ close_event.pc = "closed"
    /\ close_event.answered # NULL
    /\ \E r \in Range(logs) :
           /\ r.action_type = "LOGOUT"
           /\ r.session_id = SessionOf(ClientEmail)
           /\ r.timestamp < close_event.answered
           /\ ~prevent_duplicate_logout(logs, SessionOf(ClientEmail), "LOGOUT",
                                        close_event.answered)

\* C39: the Status of every row of the directory is active, finished or
\* kicked, whatever calls the client and the admin panel make on it.
C39_StatusOfTheThree ==
    \A i \in 1..Len(sessions) :
        sessions[i].status \in {"active", "finished", "kicked"}

\* C40: the duplicate-LOGOUT rule is a window of LOGOUT_WINDOW minutes: when
\* every LOGOUT row of a session is older than the window, a LOGOUT appended
\* for that session is accepted and stored as the new last row of the log.
C40_LogoutAfterWindowStored ==
    \A e \in Emails :
        (\A r \in Range(logs) :
             (r.session_id = SessionOf(e) /\ r.action_type = "LOGOUT")
                 => r.timestamp < now - LOGOUT_WINDOW)
        => LET res == log_action(logs, sqlite_seq, now, e, "LOGOUT", 1,
                                 SessionOf(e), now, FALSE)
           IN  /\ res.id # DUPLICATE_LOGOUT
               /\ Len(res.logs) = Len(logs) + 1
               /\ res.logs[Len(res.logs)].action_type = "LOGOUT"
               /\ res.logs[Len(res.logs)].session_id = SessionOf(e)

=============================================================================
